---- MODULE Spec2Model ----
(***************************************************************************)
(* A model of the PDF visual-content pipeline of src/src/pdf/pdf.service.ts *)
(*                                                                         *)
(*   Spec          ConcurrencyManager.runTask and PdfService.annotate: the *)
(*                 Vision annotation gate and the annotation cache.        *)
(*   GateSpec      ConcurrencyManager on its own, under callers that pass  *)
(*                 tasks of their own.                                     *)
(*   GateFairSpec  GateSpec with the fairness of the JavaScript job queue  *)
(*                 and the assumption that every started task settles.     *)
(*   MistralSpec   PdfService.callMistral: the retry loop around the text  *)
(*                 completion request.                                     *)
(*   MistralFairSpec  MistralSpec where requests settle and timers fire.   *)
(*   RunSpec       PdfService.convertAndSummarize: one run, from the scan  *)
(*                 of the embedded files to the session update.            *)
(*   RunNoKeySpec  RunSpec on a service without MISTRAL_API_KEY.           *)
(*   SessionSpec   several runs on one PdfService: the caches and the      *)
(*                 session slot that they share.                           *)
(*   UploadSpec    the runs that PdfController.summarize starts: the files *)
(*                 in the upload directory and the URLs of the summaries.  *)
(*   BoxSpec       detectAndCropLogos: the box of a logo and of a photo.   *)
(*   DetectSpec    detectAndCropLogos on one page: its three stages, the   *)
(*                 loop over the detected objects and the scene crop.      *)
(*   ValidSpec     PdfService.isValidImage on one image.                   *)
(*   BatchSpec     the batch loop of one run with the annotate calls of    *)
(*                 its page tasks at the gate.                             *)
(*   WordpressSpec WordpressService.consolidatePDFData on the summaries of *)
(*                 a document.                                             *)
(*                                                                         *)
(* Every asynchronous function is cut at its awaits: one action is the     *)
(* code that runs between two awaits, which JavaScript runs atomically.    *)
(* Each specification moves the variables of its part of the program and  *)
(* leaves the others at their initial values.                              *)
(***************************************************************************)
EXTENDS Integers, Sequences, FiniteSets, TLC

(***************************************************************************)
(* Bounds of the model                                                     *)
(***************************************************************************)
\* callers of runTask (annotate invocations) that are followed one by one;
\* they are numbered in the order in which they call.  Further callers are
\* only counted (others): they call when the gate has room.
NumCalls == 3
\* largest value of callMistral's parameter retries
MaxRetries == 3
\* largest number of files that the extraction tools leave in the embedded
\* directory (one more than a batch, so that a second batch runs)
MaxFiles == 11
\* largest number of files that a failing extraction tool leaves behind
MaxPartialFiles == 2
\* largest number of pages that the rasterizer renders
MaxPages == 3
\* runs of convertAndSummarize on the one PdfService (run d is given document d)
NumRuns == 2
\* largest number of requests that the runs issue for one cacheKey between two
\* resets of the caches
MaxRequests == 2
\* vertex coordinates run from -1 to MaxGrid grid units (and may be missing)
MaxGrid == 3
\* largest number of annotations in logoResp.logoAnnotations
MaxLogos == 2
\* largest number of annotations in objResp.localizedObjectAnnotations
MaxObjects == 2
\* largest number of page summaries handed to consolidatePDFData
MaxSummaries == 3
\* largest number of bytes of an image
MaxSamples == 4

(***************************************************************************)
(* Program constants                                                       *)
(***************************************************************************)
\* new ConcurrencyManager(5)
maxConcurrent == 5
\* callMistral(text, retries = 3, backoff = 1000)
backoff == 1000
\* const batchSize = 10 in extractEmbeddedImages
batchSize == 10
\* Math.max(1, Math.min(3, Math.floor(cpus().length / 2)))
MaxConcurrentPagesLow == 1
MaxConcurrentPagesHigh == 3

Calls == 1..NumCalls
\* imgBuffer contents, by their md5 digest
BufferHashes == {"h1"}
\* two of the three values of annotate's parameter type (the third,
\* 'LABEL_DETECTION', is treated by annotate like these two)
AnnotationTypes == {"LOGO_DETECTION", "OBJECT_LOCALIZATION"}
\* cacheKey = `${type}_${bufferHash}`
CacheKeys == AnnotationTypes \X BufferHashes
NoKey == <<"none", "none">>

VARIABLES
    running,      \* ConcurrencyManager.running
    queue,        \* ConcurrencyManager.queue: the resolve callbacks of the waiters
    resumeJobs,   \* waiters whose promise is resolved and whose continuation is a queued job
    others,       \* tasks in flight of annotate invocations for images that are not followed
    pc,           \* where each annotate invocation stands
    cacheKey,     \* the cacheKey of each invocation that is past the cache check and has not returned
    apiCache,     \* PdfService.apiCache: the keys that hold a result
    requests,     \* visionClient.annotateImage requests issued per key since the last reset
    returned,     \* what each annotate invocation returned
    wokenByRejection, \* the invocations, not yet settled, that a rejected task's release woke
    \* callMistral
    mistralKey,   \* whether MISTRAL_API_KEY is set
    mpc,          \* where the call stands
    retries,      \* its parameter retries
    attempt,      \* the loop variable attempt
    fetches,      \* requests sent to the text-completion service
    sleeps,       \* the delays slept, in order
    replies,      \* the replies received, in order
    summary,      \* the number of the reply the returned title/description was parsed from
    \* convertAndSummarize
    rpc,          \* where the run stands
    epc,          \* where extractEmbeddedImages stands
    poppler,      \* the promise of Poppler.convert
    nativeTools,  \* what became of the native extraction tools
    files,        \* the sorted listing of the embedded directory (number of files)
    batchIndex,   \* extractEmbeddedImages: the loop variable batchIndex
    fpc,          \* where the callback of each embedded file stands
    processedImageHashes, \* the local set processedImageHashes of extractEmbeddedImages
    validImagePaths,      \* extractEmbeddedImages: the accepted files, in order
    pages,        \* the sorted listing of the rendered pages (their contents)
    ppc,          \* where the preprocessing callback of each page stands
    pageHashes,   \* the set pageHashes
    validPages,   \* the array validPages (source page indices)
    maxConcurrentPages,
    batchStart,   \* the loop variable i of the batch loop
    tpc,          \* where the task of each page of validPages stands
    summaries,    \* the array summaries
    recentProcessedPdf,   \* the session slot: empty (null) or the one record it holds
    \* several runs on one PdfService
    spc,          \* where each run stands
    skey,         \* the cache entry that each run is computing
    validationCache,  \* PdfService.validationCache: the verdict per image hash
    writer,       \* the run that wrote each cache entry (0: no entry)
    foreignRead,  \* whether a run was served a cache entry that another run wrote
    runReturned,  \* the summaries that each run returned to its caller
    completed,    \* the runs that completed, in the order of their completion
    \* the runs of the summarize endpoint
    disk,         \* the files below the working directory: path and the document they stem from
    wrote,        \* per run, the assets it wrote: the URL it formed and the path it wrote to
    \* detectAndCropLogos: the geometry of one detection
    bpc,          \* where the detection stands
    verts,        \* the vertices of its boundingPoly
    img,          \* the width and height that sharp reports for the page image
    box,          \* left, top, width, height computed from the vertices
    padded,       \* the photo box after its padding
    \* detectAndCropLogos: the three stages on one page
    dpc,          \* where the invocation stands
    logos,        \* the array logos (the idx of each entry)
    objects,      \* objResp.localizedObjectAnnotations, as far as the loop has come
    processedAreas,   \* the array processedAreas of the photo stage
    photos,       \* the array photos (the idx of each entry)
    labels,       \* labelResp.labelAnnotations
    scenes,       \* the array scenes (number of entries)
    cropData,     \* the width and height of the scene crop
    failed,       \* the stages in which an annotation or a crop failed
    \* isValidImage on one image
    image,        \* the image: width, height and raw bytes
    isValid,      \* what the last call returned, and whether it had caught an error
    \* consolidatePDFData
    pdfData,      \* its parameter pdfData
    consolidated  \* the record it returned: empty before the call, else the one record

gateVars == <<running, queue, resumeJobs, others, pc, cacheKey, apiCache, requests, returned, wokenByRejection>>
mistralVars == <<mistralKey, mpc, retries, attempt, fetches, sleeps, replies, summary>>
runVars == <<rpc, epc, poppler, nativeTools, files, batchIndex, fpc, processedImageHashes, validImagePaths,
             pages, ppc, pageHashes, validPages, maxConcurrentPages, batchStart, tpc,
             summaries, recentProcessedPdf>>
sessionVars == <<spc, skey, validationCache, writer, foreignRead, runReturned, completed>>
boxVars == <<bpc, verts, img, box, padded>>
uploadVars == <<disk, wrote>>
validVars == <<image, isValid>>
wordpressVars == <<pdfData, consolidated>>
detectVars == <<dpc, logos, objects, processedAreas, photos, labels, scenes, cropData, failed>>
notGate == <<mistralVars, runVars, sessionVars, boxVars, detectVars, uploadVars, validVars, wordpressVars>>
notMistral == <<gateVars, runVars, sessionVars, boxVars, detectVars, uploadVars, validVars, wordpressVars>>
notRun == <<mistralVars, sessionVars, boxVars, detectVars, uploadVars, validVars, wordpressVars>>
vars == <<gateVars, mistralVars, runVars, sessionVars, boxVars, detectVars, uploadVars, validVars, wordpressVars>>

Runs == 1..NumRuns
\* the entries of the two caches: apiCache by cacheKey, validationCache by hash
ValidationKeys == {"VALIDATION"} \X BufferHashes
CacheEntries == CacheKeys \cup ValidationKeys

GateIdle ==
    /\ running = 0
    /\ queue = <<>>
    /\ resumeJobs = <<>>
    /\ others = 0
    /\ pc = [c \in Calls |-> "idle"]
    /\ cacheKey = [c \in Calls |-> NoKey]
    /\ apiCache = {}
    /\ requests = [k \in CacheKeys |-> 0]
    /\ returned = [c \in Calls |-> "pending"]
    /\ wokenByRejection = {}

MistralIdle ==
    /\ mistralKey = TRUE
    /\ mpc = "idle"
    /\ retries = 3
    /\ attempt = 0
    /\ fetches = 0
    /\ sleeps = <<>>
    /\ replies = <<>>
    /\ summary = 0

RunIdle ==
    /\ rpc = "idle"
    /\ epc = "idle"
    /\ poppler = "idle"
    /\ nativeTools = "unknown"
    /\ files = 0
    /\ batchIndex = 0
    /\ fpc = <<>>
    /\ processedImageHashes = {}
    /\ validImagePaths = <<>>
    /\ pages = <<>>
    /\ ppc = <<>>
    /\ pageHashes = {}
    /\ validPages = <<>>
    /\ maxConcurrentPages = 0
    /\ batchStart = 0
    /\ tpc = <<>>
    /\ summaries = <<>>
    /\ recentProcessedPdf = <<>>

SessionIdle ==
    /\ spc = [r \in Runs |-> "idle"]
    /\ skey = [r \in Runs |-> NoKey]
    /\ validationCache = [h \in BufferHashes |-> "undefined"]
    /\ writer = [e \in CacheEntries |-> 0]
    /\ foreignRead = FALSE
    /\ runReturned = [r \in Runs |-> <<>>]
    /\ completed = <<>>

\* a box of the given fields
Box(l, t, w, h) == [left |-> l, top |-> t, width |-> w, height |-> h]

BoxIdle ==
    /\ bpc = "idle"
    /\ verts = <<>>
    /\ img = <<0, 0>>
    /\ box = Box(0, 0, 0, 0)
    /\ padded = Box(0, 0, 0, 0)

ValidIdle ==
    /\ image = [width |-> 0, height |-> 0, data |-> <<>>]
    /\ isValid = [value |-> "none", error |-> FALSE]

WordpressIdle ==
    /\ pdfData = <<>>
    /\ consolidated = <<>>

UploadIdle ==
    /\ disk = {}
    /\ wrote = [r \in Runs |-> {}]

DetectIdle ==
    /\ dpc = "idle"
    /\ logos = <<>>
    /\ objects = <<>>
    /\ processedAreas = <<>>
    /\ photos = <<>>
    /\ labels = {}
    /\ scenes = 0
    /\ cropData = [width |-> 0, height |-> 0]
    /\ failed = {}

Init ==
    /\ GateIdle
    /\ MistralIdle
    /\ RunIdle
    /\ SessionIdle
    /\ BoxIdle
    /\ DetectIdle
    /\ UploadIdle
    /\ ValidIdle
    /\ WordpressIdle

(***************************************************************************)
(* ConcurrencyManager.runTask                                              *)
(***************************************************************************)
\* the task of caller c starts: running++ and the synchronous part of the
\* task; the task that annotate passes issues the annotateImage request for
\* its key k (NoKey: some other task)
StartTask(c, k) ==
    /\ running' = running + 1
    /\ requests' = IF k = NoKey THEN requests ELSE [requests EXCEPT ![k] = @ + 1]
    /\ pc' = [pc EXCEPT ![c] = "inTask"]

\* runTask up to its first await: a full gate parks the caller's resolve
\* callback in the queue, otherwise the task starts at once
runTask(c, k) ==
    IF running >= maxConcurrent
    THEN /\ queue' = Append(queue, c)
         /\ pc' = [pc EXCEPT ![c] = "waiting"]
         /\ UNCHANGED <<running, requests, resumeJobs, wokenByRejection>>
    ELSE /\ StartTask(c, k)
         /\ UNCHANGED <<queue, resumeJobs, wokenByRejection>>

\* a release that leaves the waiters asleep
ReleaseNoWake(how, c) ==
    /\ running' = running - 1
    /\ wokenByRejection' = wokenByRejection \ {c}
    /\ UNCHANGED <<queue, resumeJobs>>

\* the finally block, reached after the task of c (0: an invocation that is
\* not followed) settled (how: "resolved" or "rejected"): running-- and the
\* head waiter, if any, is resolved
Release(how, c) ==
    /\ running' = running - 1
    /\ IF Len(queue) > 0
       THEN /\ queue' = Tail(queue)
            /\ resumeJobs' = Append(resumeJobs, Head(queue))
            /\ wokenByRejection' = IF how = "rejected"
                                   THEN (wokenByRejection \ {c}) \cup {Head(queue)}
                                   ELSE wokenByRejection \ {c}
       ELSE /\ wokenByRejection' = wokenByRejection \ {c}
            /\ UNCHANGED <<queue, resumeJobs>>

\* a runTask that releases its slot after `await task()` instead of in a
\* finally block
TaskSettlesNoFinally(c, ok) ==
    /\ pc[c] = "inTask"
    /\ IF ok THEN Release("resolved", c)
             ELSE UNCHANGED <<running, queue, resumeJobs, wokenByRejection>>
    /\ pc' = [pc EXCEPT ![c] = IF ok THEN "resolved" ELSE "rejected"]
    /\ UNCHANGED <<others, cacheKey, apiCache, requests, returned, notGate>>

\* the task of c settles (ok: resolved, otherwise rejected); runTask resumes
\* after `await task()`, runs the finally block and settles its own promise
TaskSettles(c, ok) ==
    /\ pc[c] = "inTask"
    /\ Release(IF ok THEN "resolved" ELSE "rejected", c)
    /\ pc' = [pc EXCEPT ![c] = IF ok THEN "resolved" ELSE "rejected"]
    /\ UNCHANGED <<others, cacheKey, apiCache, requests, returned, notGate>>

\* a woken waiter resumes after its await; resolved promises run their
\* continuations in the order in which they were resolved
WaiterResumes(c) ==
    /\ Len(resumeJobs) > 0
    /\ c = Head(resumeJobs)
    /\ resumeJobs' = Tail(resumeJobs)
    /\ StartTask(c, cacheKey[c])
    /\ UNCHANGED <<queue, others, cacheKey, apiCache, returned, wokenByRejection, notGate>>

\* a caller of runTask with a task of its own
callRunTask(c) ==
    /\ pc[c] = "idle"
    /\ \A d \in Calls : d < c => pc[d] # "idle"
    /\ runTask(c, NoKey)
    /\ UNCHANGED <<others, cacheKey, apiCache, returned, notGate>>

\* an invocation for an image that is not followed finds room in the gate and
\* starts its task
otherStarts ==
    /\ running < maxConcurrent
    /\ running' = running + 1
    /\ others' = others + 1
    /\ UNCHANGED <<queue, resumeJobs, pc, cacheKey, apiCache, requests, returned, wokenByRejection, notGate>>

\* the task of such an invocation settles, and runTask runs its finally block
otherSettles(ok) ==
    /\ others > 0
    /\ others' = others - 1
    /\ Release(IF ok THEN "resolved" ELSE "rejected", 0)
    /\ UNCHANGED <<pc, cacheKey, apiCache, requests, returned, notGate>>

(***************************************************************************)
(* PdfService.annotate                                                     *)
(***************************************************************************)
\* an annotate that goes to the gate without looking into the cache
annotateUncached(c, k) ==
    /\ pc[c] = "idle"
    /\ \A d \in Calls : d < c => pc[d] # "idle"
    /\ cacheKey' = [cacheKey EXCEPT ![c] = k]
    /\ runTask(c, k)
    /\ UNCHANGED <<returned, others, apiCache, notGate>>

\* annotate is invoked for key k: a cache hit returns at once, a miss enters
\* the gate
annotate(c, k) ==
    /\ pc[c] = "idle"
    /\ \A d \in Calls : d < c => pc[d] # "idle"
    /\ IF k \in apiCache
       THEN /\ pc' = [pc EXCEPT ![c] = "done"]
            /\ returned' = [returned EXCEPT ![c] = "cached"]
            /\ UNCHANGED <<running, queue, resumeJobs, requests, wokenByRejection, cacheKey>>
       ELSE /\ cacheKey' = [cacheKey EXCEPT ![c] = k]
            /\ runTask(c, k)
            /\ UNCHANGED returned
    /\ UNCHANGED <<others, apiCache, notGate>>

\* annotate resumes after `await runTask(...)`: a result is stored in the
\* cache and returned, a rejection is caught and {} is returned
annotateResumes(c) ==
    /\ pc[c] \in {"resolved", "rejected"}
    /\ IF pc[c] = "resolved"
       THEN /\ apiCache' = apiCache \cup {cacheKey[c]}
            /\ returned' = [returned EXCEPT ![c] = "result"]
       ELSE /\ UNCHANGED apiCache
            /\ returned' = [returned EXCEPT ![c] = "empty"]
    /\ pc' = [pc EXCEPT ![c] = "done"]
    /\ cacheKey' = [cacheKey EXCEPT ![c] = NoKey]
    /\ UNCHANGED <<running, queue, resumeJobs, others, requests, wokenByRejection, notGate>>

\* this.apiCache = {}; the requests are counted per run
ClearApiCache ==
    /\ apiCache' = {}
    /\ requests' = [k \in CacheKeys |-> 0]

\* the start of a run of convertAndSummarize empties the cache
resetCaches ==
    /\ ClearApiCache
    /\ UNCHANGED <<running, queue, resumeJobs, others, pc, cacheKey, returned, wokenByRejection, notGate>>

Next ==
    \/ \E c \in Calls, k \in CacheKeys : annotate(c, k)
    \/ \E c \in Calls : WaiterResumes(c)
    \/ \E c \in Calls, ok \in BOOLEAN : TaskSettles(c, ok)
    \/ \E c \in Calls : annotateResumes(c)
    \/ otherStarts
    \/ \E ok \in BOOLEAN : otherSettles(ok)
    \/ resetCaches

Spec == Init /\ [][Next]_vars

\* the ConcurrencyManager on its own, under callers with tasks of their own
GateNext ==
    \/ \E c \in Calls : callRunTask(c)
    \/ \E c \in Calls : WaiterResumes(c)
    \/ \E c \in Calls, ok \in BOOLEAN : TaskSettles(c, ok)
    \/ otherStarts
    \/ \E ok \in BOOLEAN : otherSettles(ok)

GateSpec == Init /\ [][GateNext]_vars

\* queued jobs run, and every started task settles
Fairness ==
    /\ WF_vars(\E c \in Calls : WaiterResumes(c))
    /\ \A c \in Calls : WF_vars(\E ok \in BOOLEAN : TaskSettles(c, ok))
    /\ WF_vars(\E ok \in BOOLEAN : otherSettles(ok))

GateFairSpec == GateSpec /\ Fairness

\* the tasks that are executing inside runTask
InFlight == others + Cardinality({c \in Calls : pc[c] = "inTask"})

\* C1: the number of tasks executing inside runTask never exceeds maxConcurrent
C1_ConcurrencyBound == InFlight <= maxConcurrent

\* C2: between two cache resets the external request is issued at most once
\* for every (hash, kind) pair
C2_OneRequestPerKey == \A k \in CacheKeys : requests[k] <= 1

\* C11: when the request of an annotate call failed, the call leaves an entry
\* for its (hash, kind) pair in the cache, so that later calls for the pair
\* are served from the cache
C11_FailureCached ==
    [][\A c \in Calls :
          (pc[c] = "rejected" /\ pc'[c] = "done") => cacheKey[c] \in apiCache']_vars

\* C12: an annotate call that finds its key in apiCache returns the entry and
\* changes neither running nor the queue and issues no request; a call that
\* enters the gate had found no entry for its key
C12_CacheHitFrame ==
    [][\A c \in Calls :
          /\ (pc[c] = "idle" /\ pc'[c] \in {"waiting", "inTask"}) =>
                 cacheKey'[c] \notin apiCache
          /\ (pc[c] = "idle" /\ pc'[c] = "done") =>
                 /\ apiCache # {}
                 /\ returned'[c] = "cached"
                 /\ UNCHANGED <<running, queue, resumeJobs, others, requests, apiCache>>]_vars

\* a call was served from the cache while the gate was full and another call
\* was waiting in the queue
C12_Witness ==
    \E c \in Calls :
        /\ returned[c] = "cached"
        /\ pc[c] = "done"
        /\ running = maxConcurrent
        /\ queue # <<>>

\* an invocation is waiting (queued, or woken and not yet resumed)
Waiting(d) == pc[d] = "waiting"

\* C8: a task starts only when no invocation that arrived earlier is still
\* waiting (queued, or woken and not yet resumed)
C8_FifoAdmission ==
    [][/\ \A c \in Calls :
            (pc[c] # "inTask" /\ pc'[c] = "inTask") =>
                \A d \in Calls : d < c => ~Waiting(d)
       /\ others' > others => \A d \in Calls : ~Waiting(d)]_vars

\* C9: if every started task settles, every invocation that waits at the gate
\* starts its task
C9_NoStarvation == \A c \in Calls : (pc[c] = "waiting") ~> (pc[c] = "inTask")

C9_Witness == \E c \in Calls : c \in wokenByRejection /\ pc[c] = "inTask"

\* C10: a task that rejects releases its slot as a success does: running is
\* decremented once and the head waiter, if any, is woken; no other
\* invocation is affected by the rejection
C10_RejectionReleases ==
    [][\A c \in Calls :
          (pc[c] = "inTask" /\ pc'[c] = "rejected") =>
              /\ running' = running - 1
              /\ IF queue # <<>>
                 THEN /\ queue' = Tail(queue)
                      /\ resumeJobs' = Append(resumeJobs, Head(queue))
                 ELSE UNCHANGED <<queue, resumeJobs>>
              /\ \A d \in Calls \ {c} : pc'[d] = pc[d] /\ returned'[d] = returned[d]]_vars

C10_Witness ==
    \E c, d \in Calls :
        /\ pc[c] = "rejected"
        /\ d \in wokenByRejection
        /\ pc[d] = "inTask"

\* C38: running is never negative and is the number of invocations that
\* are past running++ and have not yet run the finally block; when no task
\* is executing and no woken waiter has yet to resume, running is 0 and the
\* queue is empty
C38_NoLeakedSlot ==
    /\ running >= 0
    /\ running = InFlight
    /\ (InFlight = 0 /\ resumeJobs = <<>>) => (running = 0 /\ queue = <<>>)
    /\ \A c \in Calls :
          pc[c] = "waiting" <=> \/ \E k \in 1..Len(queue) : queue[k] = c
                                \/ \E k \in 1..Len(resumeJobs) : resumeJobs[k] = c

\* every followed invocation has settled, one of them by a rejection, no
\* other task is executing, and the gate is at rest
C38_Witness ==
    /\ \A c \in Calls : pc[c] \in {"resolved", "rejected"}
    /\ \E c \in Calls : pc[c] = "rejected"
    /\ others = 0
    /\ running = 0
    /\ queue = <<>>
    /\ resumeJobs = <<>>

(***************************************************************************)
(* PdfService.callMistral                                                  *)
(***************************************************************************)
\* what one request to the text-completion service can come to:
\*   "ok"       a success status and content that parses to title/description
\*   "badjson"  a success status and content that JSON.parse rejects
\*   "429"      HTTP 429
\*   "500"      any other non-success status
\*   "network"  fetch itself rejects
Replies == {"ok", "badjson", "429", "500", "network"}

\* a delay that does not grow with the attempt
DelayFlat(a) == backoff

\* setTimeout(r, backoff * attempt)
Delay(a) == backoff * a

\* a catch block that never takes an attempt for the last one
LastAttemptMissed(a, r) == a > r

\* the last attempt rethrows from the catch block
LastAttempt(a, r) == a = r

\* without the key the call throws at once; otherwise it enters the loop with
\* attempt = 1 and sends the first request
callMistral ==
    /\ mpc = "idle"
    /\ IF ~mistralKey
       THEN /\ mpc' = "thrown"
            /\ UNCHANGED <<attempt, fetches>>
       ELSE /\ attempt' = 1
            /\ fetches' = fetches + 1
            /\ mpc' = "fetching"
    /\ UNCHANGED <<mistralKey, retries, sleeps, replies, summary, notMistral>>

\* the sleep that follows a failed attempt
Sleep ==
    /\ sleeps' = Append(sleeps, Delay(attempt))
    /\ mpc' = "sleeping"
    /\ UNCHANGED summary

\* the catch block of the loop body
Catch ==
    IF LastAttempt(attempt, retries)
    THEN /\ mpc' = "thrown"
         /\ UNCHANGED <<sleeps, summary>>
    ELSE Sleep

\* the request of the current attempt settles with reply r, and the loop body
\* runs up to its next await, its return or its throw
fetchSettles(r) ==
    /\ mpc = "fetching"
    /\ replies' = Append(replies, r)
    /\ CASE r = "ok" ->
              /\ summary' = Len(replies) + 1
              /\ mpc' = "returned"
              /\ UNCHANGED sleeps
         [] r = "429" /\ attempt < retries -> Sleep
         [] OTHER -> Catch
    /\ UNCHANGED <<mistralKey, retries, attempt, fetches, notMistral>>

\* the sleep ends: attempt++ and, the loop condition holding, the next request
sleepEnds ==
    /\ mpc = "sleeping"
    /\ attempt' = attempt + 1
    /\ IF attempt + 1 <= retries
       THEN /\ fetches' = fetches + 1
            /\ mpc' = "fetching"
            /\ UNCHANGED summary
       ELSE \* the return after the loop: { title: '', description: '' }
            /\ mpc' = "returned"
            /\ summary' = 0
            /\ UNCHANGED fetches
    /\ UNCHANGED <<mistralKey, retries, sleeps, replies, notMistral>>

MistralInit ==
    /\ GateIdle
    /\ RunIdle
    /\ SessionIdle
    /\ BoxIdle
    /\ DetectIdle
    /\ UploadIdle
    /\ ValidIdle
    /\ WordpressIdle
    /\ mistralKey \in BOOLEAN
    /\ mpc = "idle"
    /\ retries \in 1..MaxRetries
    /\ attempt = 0
    /\ fetches = 0
    /\ sleeps = <<>>
    /\ replies = <<>>
    /\ summary = 0

MistralNext ==
    \/ callMistral
    \/ \E r \in Replies : fetchSettles(r)
    \/ sleepEnds

MistralSpec == MistralInit /\ [][MistralNext]_vars

\* fetch settles (node-fetch resolves or rejects) and timers fire
MistralFairSpec == MistralSpec /\ WF_vars(MistralNext)

\* C5: callMistral sends a further request only after an HTTP 429 reply: every
\* reply that was followed by another request is a 429
C5_RetryOnlyAfter429 ==
    \A i \in 1..Len(replies) : i < fetches => replies[i] = "429"

\* C6: with retries = 3 and the replies 429, 429, success, callMistral returns
\* what it parsed from the third reply after exactly three requests and
\* exactly two sleeps, of 1 x backoff and 2 x backoff; the sleep before
\* attempt k+1 always lasts k x backoff
C6_Two429ThenSuccess ==
    /\ \A k \in 1..Len(sleeps) : sleeps[k] = k * backoff
    /\ (retries = 3 /\ replies = <<"429", "429", "ok">>) =>
          /\ mpc = "returned"
          /\ summary = 3
          /\ fetches = 3
          /\ sleeps = <<backoff, 2 * backoff>>

C6_Witness ==
    /\ retries = 3
    /\ replies = <<"429", "429", "ok">>
    /\ mpc = "returned"

\* C7: whatever the replies, callMistral sends at most `retries` requests and
\* comes to an end, and when the last allowed attempt fails it throws and
\* returns no summary
C7_BoundedAttempts ==
    /\ [](/\ fetches <= retries
          /\ (Len(replies) = retries /\ replies[retries] # "ok") =>
                (mpc = "thrown" /\ summary = 0))
    /\ <>(mpc \in {"returned", "thrown"})

C7_Witness ==
    /\ mpc = "thrown"
    /\ fetches = retries
    /\ retries = 3
    /\ replies[3] = "network"

(***************************************************************************)
(* PdfService.convertAndSummarize and extractEmbeddedImages                *)
(***************************************************************************)
\* getImageHash: the md5 digest of a file's bytes
getImageHash(content) == <<"md5", content>>

\* The embedded directory after the extraction tools ran holds the first n
\* files of this listing (sorted by name).  Files f and f + 8 hold the same
\* bytes; odd files are bitmaps, even files vector graphics.
FileContent(f) == ((f - 1) % 8) + 1
IsSvg(f) == f % 2 = 0
\* the bitmap with content 3 fails the size and quality checks
FileValid(f) == FileContent(f) # 3

\* the contents a rendered page can have; a blank page fails isValidImage
PageContents == {"a", "b", "c", "blank"}
isValidImage(content) == content # "blank"

RECURSIVE SeqsUpTo(_, _)
SeqsUpTo(S, n) ==
    IF n = 0 THEN {<<>>}
    ELSE LET shorter == SeqsUpTo(S, n - 1)
         IN  shorter \cup {Append(q, x) : q \in shorter, x \in S}

\* a listing names the contents in the order of their first occurrence: "a"
\* is the first content that is not blank, "b" the second, "c" the third
FirstOccurrences(q) ==
    \A k \in 1..Len(q) :
        /\ q[k] = "b" => \E j \in 1..(k - 1) : q[j] = "a"
        /\ q[k] = "c" => \E j \in 1..(k - 1) : q[j] = "b"

PageListings == {q \in SeqsUpTo(PageContents, MaxPages) : FirstOccurrences(q)}

\* the numbers lo..hi as a sequence
Range(lo, hi) == [k \in 1..(hi - lo + 1) |-> lo + k - 1]

Min(a, b) == IF a < b THEN a ELSE b

\* files.slice(startIdx, endIdx) of batch b (from 0), as file numbers
FileBatch(b, n) == Range(b * batchSize + 1, Min((b + 1) * batchSize, n))

\* a slice that takes every page that is left
PageBatchAll(i, m, n) == Range(i, n)

\* validPages.slice(i, i + maxConcurrentPages), as positions (from 1) in validPages
PageBatch(i, m, n) == Range(i, Min(i + m - 1, n))

InSeq(x, q) == \E k \in 1..Len(q) : q[k] = x

\* a call of convertAndSummarize: it awaits getFileHash
convertAndSummarize ==
    /\ rpc = "idle"
    /\ rpc' = "hashing"
    /\ UNCHANGED <<epc, poppler, nativeTools, files, batchIndex, fpc, processedImageHashes, validImagePaths,
                   pages, ppc, pageHashes, validPages, maxConcurrentPages, batchStart, tpc,
                   summaries, recentProcessedPdf, gateVars, notRun>>

\* getFileHash settles: a rejection ends the run, otherwise the caches are
\* reset and the run awaits the wipe and the creation of the output directory
hashSettles(ok) ==
    /\ rpc = "hashing"
    /\ IF ok
       THEN /\ rpc' = "preparing"
            /\ ClearApiCache
       ELSE /\ rpc' = "thrown"
            /\ UNCHANGED <<apiCache, requests>>
    /\ UNCHANGED <<epc, poppler, nativeTools, files, batchIndex, fpc, processedImageHashes, validImagePaths,
                   pages, ppc, pageHashes, validPages, maxConcurrentPages, batchStart, tpc,
                   summaries, recentProcessedPdf,
                   running, queue, resumeJobs, others, pc, cacheKey, returned,
                   wokenByRejection, notRun>>

\* rm and mkdir settle: a rejection ends the run, otherwise extractEmbeddedImages
\* and Poppler.convert are started together and the run awaits the former
directoryReady(ok) ==
    /\ rpc = "preparing"
    /\ IF ok
       THEN /\ rpc' = "extracting"
            /\ epc' = "tools"
            /\ poppler' = "pending"
       ELSE /\ rpc' = "thrown"
            /\ UNCHANGED <<epc, poppler>>
    /\ UNCHANGED <<nativeTools, files, batchIndex, fpc, processedImageHashes, validImagePaths,
                   pages, ppc, pageHashes, validPages, maxConcurrentPages, batchStart, tpc,
                   summaries, recentProcessedPdf, gateVars, notRun>>

\* the callbacks of batch b are started: each awaits getImageHash
StartFileBatch(b, n) ==
    fpc' = [f \in 1..n |->
              IF InSeq(f, FileBatch(b, n)) THEN "hashing"
              ELSE IF f > b * batchSize THEN "queued" ELSE fpc[f]]

\* what extractWithNativeTools can come to:
\*   "none"    neither pdfimages nor pdftocairo is available: no tool runs
\*   "failed"  every tool that ran failed (successFlags holds no true)
\*   "ok"      a tool ran to its end
\*   "timeout" the timer of 60 seconds won the race: the tools are still running
NativeTools == {"none", "failed", "ok", "timeout"}

\* the sizes of a whole extraction: no file, one file, a batch less one file
\* (the first file with twins), a full batch and more than a batch
ExtractionSizes == {0, 1, batchSize - 1, batchSize, MaxFiles}

\* the files that the embedded directory, created empty by the run, can hold
\* after the tools: none when no tool ran, what a tool wrote before it failed
\* or before the timer fired, or the whole extraction
FilesAfter(tools) ==
    CASE tools = "none" -> {0}
      [] tools \in {"failed", "timeout"} -> 0..MaxPartialFiles
      [] OTHER -> ExtractionSizes

\* a scan that finds files of an earlier extraction when no tool ran
scanEmbeddedStale(tools, n, ok) ==
    /\ epc = "tools"
    /\ nativeTools' = tools
    /\ files' = MaxPartialFiles
    /\ batchIndex' = 0
    /\ StartFileBatch(0, MaxPartialFiles)
    /\ epc' = "batches"
    /\ UNCHANGED <<rpc, poppler, processedImageHashes, validImagePaths,
                   pages, ppc, pageHashes, validPages, maxConcurrentPages, batchStart, tpc,
                   summaries, recentProcessedPdf, gateVars, notRun>>

\* an extraction whose timeout ends the run
scanEmbeddedTimeoutThrows(tools, n, ok) ==
    /\ epc = "tools"
    /\ n \in FilesAfter(tools)
    /\ nativeTools' = tools
    /\ IF tools = "timeout"
       THEN /\ rpc' = "thrown"
            /\ epc' = "returned"
            /\ UNCHANGED <<files, batchIndex, fpc>>
       ELSE /\ UNCHANGED rpc
            /\ IF ok /\ n > 0
               THEN /\ files' = n
                    /\ batchIndex' = 0
                    /\ StartFileBatch(0, n)
                    /\ epc' = "batches"
               ELSE /\ epc' = "returned"
                    /\ UNCHANGED <<files, batchIndex, fpc>>
    /\ UNCHANGED <<poppler, processedImageHashes, validImagePaths,
                   pages, ppc, pageHashes, validPages, maxConcurrentPages, batchStart, tpc,
                   summaries, recentProcessedPdf, gateVars, notRun>>

\* extractEmbeddedImages up to the scan of the embedded directory.  ok: the
\* setup and the extraction tools (or the timeout) have settled and readdirSync
\* finds n files; without files it returns [], otherwise the first batch
\* starts.  ~ok: an error on the way is caught and validImagePaths, still
\* empty, is returned.
scanEmbedded(tools, n, ok) ==
    /\ epc = "tools"
    /\ n \in FilesAfter(tools)
    /\ nativeTools' = tools
    /\ IF ok /\ n > 0
       THEN /\ files' = n
            /\ batchIndex' = 0
            /\ StartFileBatch(0, n)
            /\ epc' = "batches"
       ELSE /\ epc' = "returned"
            /\ UNCHANGED <<files, batchIndex, fpc>>
    /\ UNCHANGED <<rpc, poppler, processedImageHashes, validImagePaths,
                   pages, ppc, pageHashes, validPages, maxConcurrentPages, batchStart, tpc,
                   summaries, recentProcessedPdf, gateVars, notRun>>

\* a file callback that adds its hash without looking it up
fileHashedUnchecked(f) ==
    /\ epc = "batches"
    /\ fpc[f] = "hashing"
    /\ processedImageHashes' = processedImageHashes \cup {getImageHash(FileContent(f))}
    /\ fpc' = [fpc EXCEPT ![f] = IF IsSvg(f) THEN "accepted" ELSE "validating"]
    /\ UNCHANGED <<rpc, epc, poppler, nativeTools, files, batchIndex, validImagePaths,
                   pages, ppc, pageHashes, validPages, maxConcurrentPages, batchStart, tpc,
                   summaries, recentProcessedPdf, gateVars, notRun>>

\* getImageHash of file f settles: a hash seen before makes the callback
\* return null; otherwise the hash is added, a vector graphic is accepted and
\* a bitmap goes on to its size and quality checks
fileHashed(f) ==
    /\ epc = "batches"
    /\ fpc[f] = "hashing"
    /\ IF getImageHash(FileContent(f)) \in processedImageHashes
       THEN /\ fpc' = [fpc EXCEPT ![f] = "duplicate"]
            /\ UNCHANGED processedImageHashes
       ELSE /\ processedImageHashes' = processedImageHashes \cup {getImageHash(FileContent(f))}
            /\ fpc' = [fpc EXCEPT ![f] = IF IsSvg(f) THEN "accepted" ELSE "validating"]
    /\ UNCHANGED <<rpc, epc, poppler, nativeTools, files, batchIndex, validImagePaths,
                   pages, ppc, pageHashes, validPages, maxConcurrentPages, batchStart, tpc,
                   summaries, recentProcessedPdf, gateVars, notRun>>

\* the size and quality checks of bitmap f settle
fileValidated(f) ==
    /\ epc = "batches"
    /\ fpc[f] = "validating"
    /\ fpc' = [fpc EXCEPT ![f] = IF FileValid(f) THEN "accepted" ELSE "rejected"]
    /\ UNCHANGED <<rpc, epc, poppler, nativeTools, files, batchIndex, processedImageHashes, validImagePaths,
                   pages, ppc, pageHashes, validPages, maxConcurrentPages, batchStart, tpc,
                   summaries, recentProcessedPdf, gateVars, notRun>>

\* Promise.all of the current batch settles: the accepted files are pushed in
\* batch order, and the next batch starts or validImagePaths is returned
embeddedBatchSettles ==
    /\ epc = "batches"
    /\ \A k \in 1..Len(FileBatch(batchIndex, files)) :
          fpc[FileBatch(batchIndex, files)[k]] \in {"accepted", "rejected", "duplicate"}
    /\ validImagePaths' = validImagePaths \o
          SelectSeq(FileBatch(batchIndex, files), LAMBDA f : fpc[f] = "accepted")
    /\ IF (batchIndex + 1) * batchSize < files
       THEN /\ batchIndex' = batchIndex + 1
            /\ StartFileBatch(batchIndex + 1, files)
            /\ UNCHANGED epc
       ELSE /\ epc' = "returned"
            /\ UNCHANGED <<batchIndex, fpc>>
    /\ UNCHANGED <<rpc, poppler, nativeTools, files, processedImageHashes,
                   pages, ppc, pageHashes, validPages, maxConcurrentPages, batchStart, tpc,
                   summaries, recentProcessedPdf, gateVars, notRun>>

\* Poppler.convert settles
popplerSettles(ok) ==
    /\ poppler = "pending"
    /\ poppler' = IF ok THEN "fulfilled" ELSE "rejected"
    /\ UNCHANGED <<rpc, epc, nativeTools, files, batchIndex, fpc, processedImageHashes, validImagePaths,
                   pages, ppc, pageHashes, validPages, maxConcurrentPages, batchStart, tpc,
                   summaries, recentProcessedPdf, gateVars, notRun>>

\* a listing of the pages that does not wait for Poppler.convert
listPagesEarly(ps) ==
    /\ rpc = "extracting"
    /\ epc = "returned"
    /\ IF poppler = "rejected"
       THEN /\ rpc' = "thrown"
            /\ UNCHANGED <<pages, ppc>>
       ELSE /\ rpc' = "preprocessing"
            /\ pages' = ps
            /\ ppc' = [i \in 1..Len(ps) |-> "validating"]
    /\ UNCHANGED <<epc, poppler, nativeTools, files, batchIndex, fpc, processedImageHashes, validImagePaths,
                   pageHashes, validPages, maxConcurrentPages, batchStart, tpc,
                   summaries, recentProcessedPdf, gateVars, notRun>>

\* both awaits are over: a rejected conversion ends the run; otherwise the
\* rendered pages are listed (ps: their contents, in page order) and the
\* preprocessing callbacks are started, each awaiting isValidImage
listPages(ps) ==
    /\ rpc = "extracting"
    /\ epc = "returned"
    /\ poppler # "pending"
    /\ IF poppler = "rejected"
       THEN /\ rpc' = "thrown"
            /\ UNCHANGED <<pages, ppc>>
       ELSE /\ rpc' = "preprocessing"
            /\ pages' = ps
            /\ ppc' = [i \in 1..Len(ps) |-> "validating"]
    /\ UNCHANGED <<epc, poppler, nativeTools, files, batchIndex, fpc, processedImageHashes, validImagePaths,
                   pageHashes, validPages, maxConcurrentPages, batchStart, tpc,
                   summaries, recentProcessedPdf, gateVars, notRun>>

\* isValidImage of page i (from 1) settles: an invalid page is dropped, a valid
\* one awaits getImageHash
pageValidated(i) ==
    /\ rpc = "preprocessing"
    /\ ppc[i] = "validating"
    /\ ppc' = [ppc EXCEPT ![i] = IF isValidImage(pages[i]) THEN "hashing" ELSE "invalid"]
    /\ UNCHANGED <<rpc, epc, poppler, nativeTools, files, batchIndex, fpc, processedImageHashes, validImagePaths,
                   pages, pageHashes, validPages, maxConcurrentPages, batchStart, tpc,
                   summaries, recentProcessedPdf, gateVars, notRun>>

\* getImageHash of page i settles: a hash seen before drops the page, otherwise
\* the hash is added and { index: i - 1 } is pushed onto validPages
pageHashed(i) ==
    /\ rpc = "preprocessing"
    /\ ppc[i] = "hashing"
    /\ IF getImageHash(pages[i]) \in pageHashes
       THEN /\ ppc' = [ppc EXCEPT ![i] = "duplicate"]
            /\ UNCHANGED <<pageHashes, validPages>>
       ELSE /\ ppc' = [ppc EXCEPT ![i] = "kept"]
            /\ pageHashes' = pageHashes \cup {getImageHash(pages[i])}
            /\ validPages' = Append(validPages, i - 1)
    /\ UNCHANGED <<rpc, epc, poppler, nativeTools, files, batchIndex, fpc, processedImageHashes, validImagePaths,
                   pages, maxConcurrentPages, batchStart, tpc,
                   summaries, recentProcessedPdf, gateVars, notRun>>

\* a start of the tasks of every page that is left
StartPageBatchAll(i, m, n) ==
    tpc' = [p \in 1..n |-> IF p >= i THEN "running" ELSE tpc[p]]

\* the tasks of the batch that starts at position i are started
StartPageBatch(i, m, n) ==
    tpc' = [p \in 1..n |->
              IF InSeq(p, PageBatch(i, m, n)) THEN "running"
              ELSE IF p >= i THEN "queued" ELSE tpc[p]]

\* the record that the run of document d stores: { filePath, outputDir,
\* fileHash, timestamp, pageSummaries }, without its timestamp
ProcessedPdf(d, result) ==
    [filePath |-> <<"pdf", d>>,
     outputDir |-> "uploads",
     fileHash |-> <<"sha256", d>>,
     pageSummaries |-> result]

\* the run ends: the session slot takes the record of the run, and the
\* summaries are returned
Finish(result) ==
    /\ rpc' = "done"
    /\ recentProcessedPdf' = <<ProcessedPdf(1, result)>>

\* Promise.all of the preprocessing settles: maxConcurrentPages is computed
\* (m, from the number of cpus) and the first batch starts; without valid
\* pages the loop is skipped
preprocessSettles(m) ==
    /\ rpc = "preprocessing"
    /\ \A i \in 1..Len(pages) : ppc[i] \in {"invalid", "duplicate", "kept"}
    /\ maxConcurrentPages' = m
    /\ IF Len(validPages) > 0
       THEN /\ rpc' = "batches"
            /\ batchStart' = 1
            /\ StartPageBatch(1, m, Len(validPages))
            /\ UNCHANGED recentProcessedPdf
       ELSE /\ Finish(summaries)
            /\ UNCHANGED <<batchStart, tpc>>
    /\ UNCHANGED <<epc, poppler, nativeTools, files, batchIndex, fpc, processedImageHashes, validImagePaths,
                   pages, ppc, pageHashes, validPages, summaries, gateVars, notRun>>

\* extractAndAnalyzeText.  text: what tesseract.recognize gave, trimmed
\* ("none": nothing, or recognize rejected; "some": text); mistral: how
\* callMistral ended.  Without text callMistral is not called.
extractAndAnalyzeText(text, mistral) ==
    IF text = "none" THEN "null"
    ELSE IF mistral = "thrown" THEN "null" ELSE "analysis"

\* what the task of a page comes to.  features: detectAndCropLogos fulfilled;
\* it rejects when readFileSync(imagePath), outside its try blocks, throws,
\* and then Promise.all rejects and the catch block of the task returns null
PageTaskResult(text, mistral, features) ==
    IF ~features THEN "null"
    ELSE IF extractAndAnalyzeText(text, mistral) = "null" THEN "null" ELSE "summary"

\* the task of the page at position p of validPages settles.  tpc keeps
\* "summary" for a summary record, "null" for a page without text analysis
\* and "featuresFailed" for a page that had its text analysis and was given up
\* because detectAndCropLogos rejected.  callMistral throws at once when the
\* key is missing.
pageTaskSettles(p, text, mistral, features) ==
    /\ rpc = "batches"
    /\ tpc[p] = "running"
    /\ mistralKey \/ mistral = "thrown"
    /\ tpc' = [tpc EXCEPT ![p] =
                 IF PageTaskResult(text, mistral, features) = "summary" THEN "summary"
                 ELSE IF extractAndAnalyzeText(text, mistral) = "null" THEN "null"
                 ELSE "featuresFailed"]
    /\ UNCHANGED <<rpc, epc, poppler, nativeTools, files, batchIndex, fpc, processedImageHashes, validImagePaths,
                   pages, ppc, pageHashes, validPages, maxConcurrentPages, batchStart,
                   summaries, recentProcessedPdf, gateVars, notRun>>

\* the summary record of the page at position p of validPages
PageSummary(p) ==
    [index |-> validPages[p],
     embeddedImages |-> IF validPages[p] = 0 THEN validImagePaths ELSE <<>>]

\* Promise.all of the current batch settles: the summaries of the batch are
\* pushed in batch order, and the next batch starts or the run ends
pageBatchSettles ==
    /\ rpc = "batches"
    /\ LET batch == PageBatch(batchStart, maxConcurrentPages, Len(validPages))
           results == [k \in 1..Len(batch) |-> PageSummary(batch[k])]
           pushed == summaries \o
                     SelectSeq(results,
                               LAMBDA r : \E k \in 1..Len(batch) :
                                             /\ r = PageSummary(batch[k])
                                             /\ tpc[batch[k]] = "summary")
       IN  /\ \A k \in 1..Len(batch) : tpc[batch[k]] \in {"summary", "null", "featuresFailed"}
           /\ summaries' = pushed
           /\ IF batchStart + maxConcurrentPages <= Len(validPages)
              THEN /\ batchStart' = batchStart + maxConcurrentPages
                   /\ StartPageBatch(batchStart + maxConcurrentPages, maxConcurrentPages,
                                     Len(validPages))
                   /\ UNCHANGED <<rpc, recentProcessedPdf>>
              ELSE /\ Finish(pushed)
                   /\ UNCHANGED <<batchStart, tpc>>
    /\ UNCHANGED <<epc, poppler, nativeTools, files, batchIndex, fpc, processedImageHashes, validImagePaths,
                   pages, ppc, pageHashes, validPages, maxConcurrentPages, gateVars, notRun>>

RunNext ==
    \/ convertAndSummarize
    \/ \E ok \in BOOLEAN : hashSettles(ok)
    \/ \E ok \in BOOLEAN : directoryReady(ok)
    \/ \E tools \in NativeTools, n \in 0..MaxFiles, ok \in BOOLEAN : scanEmbedded(tools, n, ok)
    \/ \E f \in 1..files : fileHashed(f)
    \/ \E f \in 1..files : fileValidated(f)
    \/ embeddedBatchSettles
    \/ \E ok \in BOOLEAN : popplerSettles(ok)
    \/ \E ps \in PageListings : listPages(ps)
    \/ \E i \in 1..Len(pages) : pageValidated(i)
    \/ \E i \in 1..Len(pages) : pageHashed(i)
    \/ \E m \in MaxConcurrentPagesLow..MaxConcurrentPagesHigh : preprocessSettles(m)
    \/ \E p \in 1..Len(validPages), text \in {"none", "some"},
          mistral \in {"returned", "thrown"}, features \in BOOLEAN :
             pageTaskSettles(p, text, mistral, features)
    \/ pageBatchSettles

RunSpec == Init /\ [][RunNext]_vars

\* a service that was constructed without MISTRAL_API_KEY
NoKeyInit ==
    /\ GateIdle
    /\ RunIdle
    /\ SessionIdle
    /\ BoxIdle
    /\ DetectIdle
    /\ UploadIdle
    /\ ValidIdle
    /\ WordpressIdle
    /\ mistralKey = FALSE
    /\ mpc = "idle"
    /\ retries = 3
    /\ attempt = 0
    /\ fetches = 0
    /\ sleeps = <<>>
    /\ replies = <<>>
    /\ summary = 0

RunNoKeySpec == NoKeyInit /\ [][RunNext]_vars

\* C3: the sequence that a run returns and stores in the session slot lists
\* the page summaries in strictly increasing source page index
C3_PageOrder ==
    rpc = "done" =>
        /\ recentProcessedPdf = <<ProcessedPdf(1, summaries)>>
        /\ \A i, j \in 1..Len(summaries) :
               i < j => summaries[i].index < summaries[j].index

\* C4: within a run no two accepted embedded files have the same content hash
\* and no two pages of validPages have the same content hash
C4_NoDuplicateHashes ==
    /\ \A f, g \in 1..files :
          (f # g /\ fpc[f] = "accepted" /\ fpc[g] = "accepted") =>
              getImageHash(FileContent(f)) # getImageHash(FileContent(g))
    /\ \A i, j \in 1..Len(validImagePaths) :
          i # j => getImageHash(FileContent(validImagePaths[i])) #
                   getImageHash(FileContent(validImagePaths[j]))
    /\ \A i, j \in 1..Len(validPages) :
          i # j => getImageHash(pages[validPages[i] + 1]) #
                   getImageHash(pages[validPages[j] + 1])

\* a run that ended after it skipped a file whose twin, later in the listing,
\* was hashed first, a file whose twin was accepted in the batch before, and
\* a page whose twin, later in the document, was hashed first
C4_Witness ==
    /\ rpc = "done"
    /\ files > batchSize
    /\ fpc[1] = "duplicate"
    /\ fpc[files] = "duplicate"
    /\ Len(validImagePaths) > 1
    /\ Len(pages) > 1
    /\ ppc[1] = "duplicate"
    /\ Len(validPages) > 1

\* the positions in the output of the summaries of source page index x
Entries(x) == {k \in 1..Len(summaries) : summaries[k].index = x}

\* the page of source index x went through OCR with text and its
\* summarization succeeded
Analysed(x) ==
    \E p \in 1..Len(validPages) :
        validPages[p] = x /\ tpc[p] \in {"summary", "featuresFailed"}

\* C14: a rendered page has a summary in the output exactly when it passed the
\* validation, was not dropped as a duplicate, had text and was summarized;
\* no page has more than one summary
C14_SummaryIff ==
    rpc = "done" =>
        \A i \in 1..Len(pages) :
            /\ Cardinality(Entries(i - 1)) <= 1
            /\ (Entries(i - 1) # {}) <=> (ppc[i] = "kept" /\ Analysed(i - 1))

\* C34: of the rendered pages of one content hash the page that is kept is
\* the one of the lowest source index, in whatever order the preprocessing
\* callbacks settle; so once the preprocessing is over, source page 0 is in
\* validPages whenever it is a valid image
C34_LowestIndexKept ==
    /\ \A i \in 1..Len(pages) :
          ppc[i] = "kept" =>
              \A j \in 1..(i - 1) : getImageHash(pages[j]) # getImageHash(pages[i])
    /\ (rpc \in {"batches", "done"} /\ pages # <<>> /\ isValidImage(pages[1]))
          => InSeq(0, validPages)

\* C15: only the summary of source page 0 carries embedded assets; for a
\* document of three valid, distinct pages that are all summarized, with one
\* accepted embedded bitmap, the output has three summaries, the first carries
\* the bitmap and the second and third carry nothing
C15_ThreePageScenario ==
    rpc = "done" =>
        /\ \A k \in 1..Len(summaries) :
               summaries[k].embeddedImages # <<>> => summaries[k].index = 0
        /\ (/\ Len(pages) = 3
            /\ \A i \in 1..3 : ppc[i] = "kept"
            /\ \A p \in 1..Len(validPages) : tpc[p] = "summary"
            /\ Len(validImagePaths) = 1
            /\ ~IsSvg(validImagePaths[1])) =>
               /\ Len(summaries) = 3
               /\ summaries[1].embeddedImages = validImagePaths
               /\ summaries[2].embeddedImages = <<>>
               /\ summaries[3].embeddedImages = <<>>

\* C17: when Poppler.convert fails, convertAndSummarize does not throw
C17_RasterizerFailureSoft == poppler = "rejected" => rpc # "thrown"

\* C18: without MISTRAL_API_KEY no run of convertAndSummarize completes and
\* returns summaries
C18_MissingKeyAborts == ~mistralKey => rpc # "done"

\* C19: when no native tool is available, or the tools fail,
\* extractEmbeddedImages returns an empty list and the summaries that the run
\* returns carry no embedded assets
C19_NoToolsEmptyList ==
    /\ (nativeTools \in {"none", "failed"} /\ epc = "returned") => validImagePaths = <<>>
    /\ (nativeTools \in {"none", "failed"} /\ rpc = "done") =>
           \A k \in 1..Len(summaries) : summaries[k].embeddedImages = <<>>

\* C19, amended: when no native tool is available, extractEmbeddedImages
\* returns an empty list and the summaries that the run returns carry no
\* embedded assets; when the tools fail, it returns the files that the tools
\* left behind and that passed its checks; in both cases it does not throw:
\* the run goes on to the pages and throws only if the rasterizer fails
C19_NoToolsAmended ==
    /\ (nativeTools = "none" /\ epc = "returned") => validImagePaths = <<>>
    /\ (nativeTools = "none" /\ rpc = "done") =>
           \A k \in 1..Len(summaries) : summaries[k].embeddedImages = <<>>
    /\ (nativeTools = "failed" /\ epc = "returned") =>
           /\ Len(validImagePaths) <= files
           /\ \A k \in 1..Len(validImagePaths) : fpc[validImagePaths[k]] = "accepted"
    /\ (nativeTools \in {"none", "failed"} /\ rpc = "thrown") => poppler = "rejected"

\* a run without native tools that ended with the summaries of its pages
C19_Witness ==
    /\ nativeTools = "none"
    /\ rpc = "done"
    /\ Len(summaries) > 1
    /\ pages # <<>>

\* the phases of a run, in their order
Phase(position) ==
    CASE position = "idle" -> 0
      [] position = "hashing" -> 1
      [] position = "preparing" -> 2
      [] position = "extracting" -> 3
      [] position = "preprocessing" -> 4
      [] position = "batches" -> 5
      [] position = "done" -> 6
      [] position = "thrown" -> 7

\* the tasks of validPages that have settled
Settled(p) == tpc[p] \in {"summary", "null", "featuresFailed"}

\* C27: a run goes through hashing, directory setup, extraction with
\* rendering, page validation, batch processing and the session update in
\* this order; the extraction and the conversion are started together; the
\* pages are listed only after both have settled; no page task starts before
\* every page is validated and deduplicated; and the session slot is written
\* only after the last batch
C27_PhaseOrder ==
    [][/\ \/ rpc' = rpc
          \/ Phase(rpc') = Phase(rpc) + 1
          \/ rpc' = "thrown"
          \/ rpc = "preprocessing" /\ rpc' = "done" /\ validPages = <<>>
       /\ (rpc = "preparing" /\ rpc' = "extracting") => (epc' = "tools" /\ poppler' = "pending")
       /\ Phase(rpc') \in 0..2 => (epc' = "idle" /\ poppler' = "idle")
       /\ Phase(rpc') \in 0..3 => (pages' = <<>> /\ validPages' = <<>>)
       /\ Phase(rpc') \in 4..6 => (epc' = "returned" /\ poppler' = "fulfilled")
       /\ Phase(rpc') \in 0..4 => tpc' = <<>>
       /\ tpc' # <<>> => \A i \in 1..Len(pages') : ppc'[i] \in {"invalid", "duplicate", "kept"}
       /\ recentProcessedPdf' # <<>> =>
             /\ rpc' = "done"
             /\ \A q \in 1..Len(tpc') : tpc'[q] \in {"summary", "null", "featuresFailed"}]_vars

\* a run that scanned two batches of files and processed three pages one by
\* one has written the session slot
C27_Witness ==
    /\ rpc = "done"
    /\ recentProcessedPdf # <<>>
    /\ files > batchSize
    /\ maxConcurrentPages = 1
    /\ Len(validPages) = 3
    /\ Len(summaries) = 2

C30_TimeoutPartial ==
    nativeTools = "timeout" =>
        /\ files <= MaxPartialFiles
        /\ epc = "returned" =>
              /\ \A f \in 1..files : fpc[f] = "accepted" <=> InSeq(f, validImagePaths)
              /\ \A i, j \in 1..Len(validImagePaths) :
                    i < j => validImagePaths[i] < validImagePaths[j]
        /\ epc \in {"batches", "returned"}
        /\ rpc = "thrown" => poppler = "rejected"

\* a run whose extraction timed out with files in the directory ended with
\* summaries that carry an accepted file
C30_Witness ==
    /\ nativeTools = "timeout"
    /\ rpc = "done"
    /\ files = MaxPartialFiles
    /\ validImagePaths # <<>>
    /\ \E k \in 1..Len(summaries) : summaries[k].embeddedImages # <<>>

(***************************************************************************)
(* Several runs of convertAndSummarize on one PdfService                   *)
(*                                                                         *)
(* The controller starts a run per request, so runs can overlap.  A run is *)
(* cut at the awaits between which it touches the fields that the runs     *)
(* share: the two caches, the gate and the session slot.  At most NumRuns  *)
(* annotate calls are in flight, fewer than maxConcurrent, so that runTask *)
(* starts every task at once.                                              *)
(***************************************************************************)
gateRest == <<queue, resumeJobs, others, pc, cacheKey, returned, wokenByRejection>>
runRest == <<rpc, epc, poppler, nativeTools, files, batchIndex, fpc, processedImageHashes,
             validImagePaths, pages, ppc, pageHashes, validPages, maxConcurrentPages,
             batchStart, tpc, summaries>>

\* the sequences of summaries that a run can return
SessionSummaries == {<<>>, <<[index |-> 0, embeddedImages |-> <<>>]>>}

\* convertAndSummarize is called for document r: it awaits getFileHash
runStarts(r) ==
    /\ spc[r] = "idle"
    /\ spc' = [spc EXCEPT ![r] = "hashing"]
    /\ UNCHANGED <<skey, validationCache, writer, foreignRead, runReturned, completed,
                   running, apiCache, requests, recentProcessedPdf,
                   gateRest, runRest, mistralVars, boxVars, detectVars, uploadVars, validVars, wordpressVars>>

\* getFileHash settles: a rejection ends the run; otherwise both caches are
\* emptied and the run awaits the wipe and the creation of the output directory
runResetsCaches(r, ok) ==
    /\ spc[r] = "hashing"
    /\ IF ok
       THEN /\ spc' = [spc EXCEPT ![r] = "preparing"]
            /\ validationCache' = [h \in BufferHashes |-> "undefined"]
            /\ ClearApiCache
            /\ writer' = [e \in CacheEntries |-> 0]
       ELSE /\ spc' = [spc EXCEPT ![r] = "thrown"]
            /\ UNCHANGED <<validationCache, apiCache, requests, writer>>
    /\ UNCHANGED <<skey, foreignRead, runReturned, completed,
                   running, recentProcessedPdf, gateRest, runRest, mistralVars, boxVars, detectVars, uploadVars, validVars, wordpressVars>>

\* rm and mkdir settle: a rejection ends the run, otherwise the extraction and
\* the page processing begin
runDirectoryReady(r, ok) ==
    /\ spc[r] = "preparing"
    /\ spc' = [spc EXCEPT ![r] = IF ok THEN "working" ELSE "thrown"]
    /\ UNCHANGED <<skey, validationCache, writer, foreignRead, runReturned, completed,
                   running, apiCache, requests, recentProcessedPdf,
                   gateRest, runRest, mistralVars, boxVars, detectVars, uploadVars, validVars, wordpressVars>>

\* run r calls annotate for key k: an entry is returned at once; without an
\* entry the task starts in the gate and issues the request
runAnnotate(r, k) ==
    /\ spc[r] = "working"
    /\ IF k \in apiCache
       THEN /\ foreignRead' = (foreignRead \/ writer[k] # r)
            /\ UNCHANGED <<spc, skey, running, requests>>
       ELSE /\ requests[k] < MaxRequests
            /\ spc' = [spc EXCEPT ![r] = "annotating"]
            /\ skey' = [skey EXCEPT ![r] = k]
            /\ running' = running + 1
            /\ requests' = [requests EXCEPT ![k] = @ + 1]
            /\ UNCHANGED foreignRead
    /\ UNCHANGED <<validationCache, writer, runReturned, completed,
                   apiCache, recentProcessedPdf, gateRest, runRest, mistralVars, boxVars, detectVars, uploadVars, validVars, wordpressVars>>

\* the request settles: the slot is released, and a result is stored
runAnnotateSettles(r, ok) ==
    /\ spc[r] = "annotating"
    /\ running' = running - 1
    /\ IF ok
       THEN /\ apiCache' = apiCache \cup {skey[r]}
            /\ writer' = [writer EXCEPT ![skey[r]] = r]
       ELSE UNCHANGED <<apiCache, writer>>
    /\ spc' = [spc EXCEPT ![r] = "working"]
    /\ skey' = [skey EXCEPT ![r] = NoKey]
    /\ UNCHANGED <<validationCache, foreignRead, runReturned, completed,
                   requests, recentProcessedPdf, gateRest, runRest, mistralVars, boxVars, detectVars, uploadVars, validVars, wordpressVars>>

\* run r calls isValidImage for an image of hash h; after getImageHash a
\* cached verdict is returned, otherwise the image is examined
runIsValidImage(r, h) ==
    /\ spc[r] = "working"
    /\ IF validationCache[h] # "undefined"
       THEN /\ foreignRead' = (foreignRead \/ writer[<<"VALIDATION", h>>] # r)
            /\ UNCHANGED <<spc, skey>>
       ELSE /\ spc' = [spc EXCEPT ![r] = "validating"]
            /\ skey' = [skey EXCEPT ![r] = <<"VALIDATION", h>>]
            /\ UNCHANGED foreignRead
    /\ UNCHANGED <<validationCache, writer, runReturned, completed,
                   running, apiCache, requests, recentProcessedPdf,
                   gateRest, runRest, mistralVars, boxVars, detectVars, uploadVars, validVars, wordpressVars>>

\* the examination ends: a verdict is stored and returned; an error returns
\* false and stores nothing
runValidationSettles(r, verdict) ==
    /\ spc[r] = "validating"
    /\ IF verdict = "error"
       THEN UNCHANGED <<validationCache, writer>>
       ELSE /\ validationCache' = [validationCache EXCEPT ![skey[r][2]] = verdict]
            /\ writer' = [writer EXCEPT ![skey[r]] = r]
    /\ spc' = [spc EXCEPT ![r] = "working"]
    /\ skey' = [skey EXCEPT ![r] = NoKey]
    /\ UNCHANGED <<foreignRead, runReturned, completed,
                   running, apiCache, requests, recentProcessedPdf,
                   gateRest, runRest, mistralVars, boxVars, detectVars, uploadVars, validVars, wordpressVars>>

\* a run that stores its record only into an empty slot
runEndsKeepingFirst(r, result) ==
    /\ spc[r] = "working"
    /\ spc' = [spc EXCEPT ![r] = "done"]
    /\ recentProcessedPdf' = IF recentProcessedPdf = <<>>
                             THEN <<ProcessedPdf(r, result)>>
                             ELSE recentProcessedPdf
    /\ runReturned' = [runReturned EXCEPT ![r] = result]
    /\ completed' = Append(completed, r)
    /\ UNCHANGED <<skey, validationCache, writer, foreignRead,
                   running, apiCache, requests, gateRest, runRest, mistralVars, boxVars, detectVars, uploadVars, validVars, wordpressVars>>

\* the run ends: its record replaces the session slot and its summaries are
\* returned
runEnds(r, result) ==
    /\ spc[r] = "working"
    /\ spc' = [spc EXCEPT ![r] = "done"]
    /\ recentProcessedPdf' = <<ProcessedPdf(r, result)>>
    /\ runReturned' = [runReturned EXCEPT ![r] = result]
    /\ completed' = Append(completed, r)
    /\ UNCHANGED <<skey, validationCache, writer, foreignRead,
                   running, apiCache, requests, gateRest, runRest, mistralVars, boxVars, detectVars, uploadVars, validVars, wordpressVars>>

\* a run that stores its record on the way out of a failure
runThrowsStoring(r) ==
    /\ spc[r] = "working"
    /\ spc' = [spc EXCEPT ![r] = "thrown"]
    /\ recentProcessedPdf' = <<ProcessedPdf(r, <<>>)>>
    /\ UNCHANGED <<skey, validationCache, writer, foreignRead, runReturned, completed,
                   running, apiCache, requests,
                   gateRest, runRest, mistralVars, boxVars, detectVars, uploadVars, validVars, wordpressVars>>

\* the run throws: the rasterizer failed
runThrows(r) ==
    /\ spc[r] = "working"
    /\ spc' = [spc EXCEPT ![r] = "thrown"]
    /\ UNCHANGED <<skey, validationCache, writer, foreignRead, runReturned, completed,
                   running, apiCache, requests, recentProcessedPdf,
                   gateRest, runRest, mistralVars, boxVars, detectVars, uploadVars, validVars, wordpressVars>>

SessionNext ==
    \/ \E r \in Runs : runStarts(r)
    \/ \E r \in Runs, ok \in BOOLEAN : runResetsCaches(r, ok)
    \/ \E r \in Runs, ok \in BOOLEAN : runDirectoryReady(r, ok)
    \/ \E r \in Runs, k \in CacheKeys : runAnnotate(r, k)
    \/ \E r \in Runs, ok \in BOOLEAN : runAnnotateSettles(r, ok)
    \/ \E r \in Runs, h \in BufferHashes : runIsValidImage(r, h)
    \/ \E r \in Runs, verdict \in {"valid", "invalid", "error"} : runValidationSettles(r, verdict)
    \/ \E r \in Runs, result \in SessionSummaries : runEnds(r, result)
    \/ \E r \in Runs : runThrows(r)

SessionSpec == Init /\ [][SessionNext]_vars

\* C13: no run is served a cache entry (annotation result or validation
\* verdict) that another run wrote
C13_NoCrossRunRead == ~foreignRead

\* getRecentPdf()
getRecentPdf == recentProcessedPdf

\* C16: getRecentPdf returns null until a run has completed, and then the one
\* record of the run that completed last: its path, hash and directory, and
\* the summaries that it returned
C16_RecentPdf ==
    IF completed = <<>>
    THEN getRecentPdf = <<>>
    ELSE LET last == completed[Len(completed)]
         IN  getRecentPdf = <<ProcessedPdf(last, runReturned[last])>>

\* two runs completed, the second with other summaries than the first
C16_Witness ==
    /\ Len(completed) = 2
    /\ runReturned[completed[1]] # runReturned[completed[2]]
    /\ getRecentPdf # <<>>

\* C32: a run that throws takes no further step, the step in which it throws
\* leaves the session slot as it is, and the slot changes only in the step
\* in which a run completes, which stores that run's record; so the slot
\* after a run that threw holds what the other runs left in it
C32_ThrowKeepsSlot ==
    [][/\ \A r \in Runs :
             /\ spc[r] = "thrown" => spc'[r] = "thrown"
             /\ (spc[r] # "thrown" /\ spc'[r] = "thrown") => getRecentPdf' = getRecentPdf
       /\ getRecentPdf' # getRecentPdf =>
             \E r \in Runs :
                 /\ spc[r] = "working"
                 /\ spc'[r] = "done"
                 /\ getRecentPdf' = <<ProcessedPdf(r, runReturned'[r])>>]_vars

\* one run completed and another threw: the slot holds the record of the
\* run that completed
C32_Witness ==
    \E r, q \in Runs :
        /\ spc[r] = "thrown"
        /\ completed = <<q>>
        /\ getRecentPdf = <<ProcessedPdf(q, runReturned[q])>>

(***************************************************************************)
(* The files of the runs that PdfController.summarize starts               *)
(*                                                                         *)
(* A path is the sequence of its segments below the working directory of   *)
(* the process, which is the directory above __dirname; a URL is the       *)
(* sequence of the segments of its path.  Every document has one page.     *)
(* multer stores the upload of run r as PdfNames[r], and the SHA-256       *)
(* digest of that document is FileHashes[r].  Whether the extraction       *)
(* tools and the rasterizer succeed is theirs to decide: both outcomes are *)
(* open at every call.                                                     *)
(***************************************************************************)
PdfNames == <<"1_a.pdf", "2_b.pdf", "3_c.pdf", "4_d.pdf">>
FileHashes == <<"sha-a", "sha-b", "sha-c", "sha-d">>

\* join(process.cwd(), file.path), for destination: './uploads'
pdfPath(r) == <<"uploads", PdfNames[r]>>
\* join(process.cwd(), 'uploads')
outputDir == <<"uploads">>

\* join(dir, name)
join(dir, name) == Append(dir, name)

\* `/files/${fileHash}/${file}`
FileUrl(fileHash, file) == <<"files", fileHash, file>>

\* useStaticAssets(join(__dirname, '..', 'uploads'), { prefix: '/files/' }):
\* the file that a URL is served from
StaticAsset(url) == <<"uploads">> \o Tail(url)

\* the page that Poppler writes with out_prefix 'page'
pageFilename == "page-1.png"

\* `${pageFilename.replace('.png', '')}_logo_${idx}.png`, _obj_ and _scene
CropKinds == {"logo", "obj", "scene"}
CropName(kind) ==
    CASE kind = "logo" -> "page-1_logo_0.png"
      [] kind = "obj" -> "page-1_obj_0.png"
      [] kind = "scene" -> "page-1_scene.png"

\* the paths of the files that are on the disk
Paths == {f.path : f \in disk}

\* a file is written: it replaces the file of that path
WriteFiles(d, paths, r) ==
    {f \in d : f.path \notin paths} \cup {[path |-> p, doc |-> r] : p \in paths}

\* is dir a prefix of path
Below(dir, path) ==
    /\ Len(dir) <= Len(path)
    /\ SubSeq(path, 1, Len(dir)) = dir

\* fs.promises.rm(dir, { recursive: true, force: true })
rm(d, dir) == {f \in d : ~Below(dir, f.path)}

\* POST /pdf/summarize for document r: multer stores the upload, summarize
\* calls convertAndSummarize, which awaits getFileHash
summarize(r) ==
    /\ spc[r] = "idle"
    /\ disk' = WriteFiles(disk, {pdfPath(r)}, r)
    /\ spc' = [spc EXCEPT ![r] = "hashing"]
    /\ UNCHANGED <<wrote, skey, validationCache, writer, foreignRead, runReturned, completed,
                   gateVars, mistralVars, runVars, boxVars, detectVars, validVars, wordpressVars>>

\* getFileHash settles: it rejects when the upload is gone; otherwise the
\* caches are reset and rm is awaited
uploadHashed(r) ==
    /\ spc[r] = "hashing"
    /\ spc' = [spc EXCEPT ![r] = IF pdfPath(r) \in Paths THEN "preparing" ELSE "thrown"]
    /\ UNCHANGED <<disk, wrote, skey, validationCache, writer, foreignRead, runReturned,
                   completed, gateVars, mistralVars, runVars, boxVars, detectVars, validVars, wordpressVars>>

\* rm and mkdir settle: the output directory is empty; the extraction and
\* Poppler.convert are started
directoryWiped(r) ==
    /\ spc[r] = "preparing"
    /\ disk' = rm(disk, outputDir)
    /\ spc' = [spc EXCEPT ![r] = "rendering"]
    /\ UNCHANGED <<wrote, skey, validationCache, writer, foreignRead, runReturned, completed,
                   gateVars, mistralVars, runVars, boxVars, detectVars, validVars, wordpressVars>>

\* Poppler.convert settles: it wrote the page into out_dir, or it rejected and
\* the run throws.  extractEmbeddedImages has returned before: its readFile
\* of the upload and its tools leave no file that the run returns
pageRendered(r, ok) ==
    /\ spc[r] = "rendering"
    /\ IF ok
       THEN /\ disk' = WriteFiles(disk, {join(outputDir, pageFilename)}, r)
            /\ wrote' = [wrote EXCEPT ![r] = @ \cup
                            {[url |-> FileUrl(FileHashes[r], pageFilename),
                              path |-> join(outputDir, pageFilename)]}]
            /\ spc' = [spc EXCEPT ![r] = "working"]
       ELSE /\ spc' = [spc EXCEPT ![r] = "thrown"]
            /\ UNCHANGED <<disk, wrote>>
    /\ UNCHANGED <<skey, validationCache, writer, foreignRead, runReturned, completed,
                   gateVars, mistralVars, runVars, boxVars, detectVars, validVars, wordpressVars>>

\* the page is processed and the run returns: a page whose file is gone is
\* not valid and the run returns no summary; otherwise the crops of the given
\* kinds are written next to the page and the summary names the URLs
pageProcessed(r, kinds) ==
    /\ spc[r] = "working"
    /\ spc' = [spc EXCEPT ![r] = "done"]
    /\ IF join(outputDir, pageFilename) \in Paths
       THEN /\ disk' = WriteFiles(disk, {join(outputDir, CropName(k)) : k \in kinds}, r)
            /\ wrote' = [wrote EXCEPT ![r] = @ \cup
                            {[url |-> FileUrl(FileHashes[r], CropName(k)),
                              path |-> join(outputDir, CropName(k))] : k \in kinds}]
            /\ runReturned' = [runReturned EXCEPT ![r] =
                  <<[imageUrl |-> FileUrl(FileHashes[r], pageFilename),
                     embeddedImages |-> {},
                     logos |-> {FileUrl(FileHashes[r], CropName(k)) : k \in kinds \cap {"logo"}},
                     photos |-> {FileUrl(FileHashes[r], CropName(k)) : k \in kinds \cap {"obj"}},
                     scenes |-> {FileUrl(FileHashes[r], CropName(k)) : k \in kinds \cap {"scene"}}]>>]
       ELSE /\ kinds = {}
            /\ UNCHANGED <<disk, wrote, runReturned>>
    /\ UNCHANGED <<skey, validationCache, writer, foreignRead, completed,
                   gateVars, mistralVars, runVars, boxVars, detectVars, validVars, wordpressVars>>

UploadNext ==
    \/ \E r \in Runs : summarize(r)
    \/ \E r \in Runs : uploadHashed(r)
    \/ \E r \in Runs : directoryWiped(r)
    \/ \E r \in Runs, ok \in BOOLEAN : pageRendered(r, ok)
    \/ \E r \in Runs, kinds \in SUBSET CropKinds : pageProcessed(r, kinds)

UploadSpec == Init /\ [][UploadNext]_vars

\* the URLs of a page summary
AssetUrls(s) == {s.imageUrl} \cup s.embeddedImages \cup s.logos \cup s.photos \cup s.scenes

C25_WipeOwnFilesOnly ==
    [][\A r \in Runs :
          (spc[r] = "preparing" /\ spc'[r] = "rendering")
              => \A f \in disk \ disk' : f.doc = r]_vars

\* C33: while the extraction and the conversion of a run of the summarize
\* endpoint are under way, the document that was uploaded for it is on the
\* disk
C33_InputSurvivesWipe ==
    \A r \in Runs : spc[r] = "rendering" => pdfPath(r) \in Paths

(***************************************************************************)
(* detectAndCropLogos: the boxes of a logo and of a photo                  *)
(*                                                                         *)
(* A detection has three vertices.  A coordinate is a number of grid units *)
(* or is missing.  For a logo (boundingPoly.vertices, in pixels) a grid    *)
(* unit is LogoStep pixels; for a photo (normalizedVertices) it is 1 / Den *)
(* of the page.  Math.round(x) is floor(x + 1/2), computed on fractions.   *)
(***************************************************************************)
Missing == -999
LogoStep == 45
Den == 2
GridCoords == {Missing} \cup (-1..MaxGrid)
Vertices == [x : GridCoords, y : GridCoords]
\* metadata() without width and height gives 0 x 0
ImageSizes == {<<0, 0>>, <<201, 121>>}

Max(a, b) == IF a > b THEN a ELSE b

\* v.x || 0
OrZero(c) == IF c = Missing THEN 0 ELSE c

\* the least and the greatest element of a set of numbers
MinOf(S) == CHOOSE m \in S : \A n \in S : m <= n
MaxOf(S) == CHOOSE m \in S : \A n \in S : m >= n

\* Math.round(num / den), den > 0
RoundDiv(num, den) == (2 * num + den) \div (2 * den)

\* an extent that is not clipped to the image
ClipExtentNone(size, start, extent) == extent

\* Math.min(size - start, extent)
ClipExtent(size, start, extent) == Min(size - start, extent)

\* the logo box: xs = max(0, v.x || 0) in pixels, pad = 5% of the smaller
\* side, left = max(0, round(minX - pad)), width = min(imgW - left,
\* round(wF + 2 pad)); pad = m / 20 for m = min(wF, hF)
LogoBox(vs, W, H) ==
    LET xs == {Max(0, OrZero(vs[i].x) * LogoStep) : i \in 1..Len(vs)}
        ys == {Max(0, OrZero(vs[i].y) * LogoStep) : i \in 1..Len(vs)}
        minX == MinOf(xs)
        minY == MinOf(ys)
        wF == MaxOf(xs) - minX
        hF == MaxOf(ys) - minY
        m == Min(wF, hF)
        l == Max(0, RoundDiv(20 * minX - m, 20))
        t == Max(0, RoundDiv(20 * minY - m, 20))
    IN  Box(l, t,
            ClipExtent(W, l, RoundDiv(20 * wF + 2 * m, 20)),
            ClipExtent(H, t, RoundDiv(20 * hF + 2 * m, 20)))

\* the photo box before its padding: xs = max(0, min(1, v.x || 0)), as
\* numerators over den; left = max(0, round(minX * W)), width = min(W - left,
\* round((maxX - minX) * W))
PhotoBoxOn(vs, W, H, den) ==
    LET xs == {Max(0, Min(den, OrZero(vs[i].x))) : i \in 1..Len(vs)}
        ys == {Max(0, Min(den, OrZero(vs[i].y))) : i \in 1..Len(vs)}
        minX == MinOf(xs)
        minY == MinOf(ys)
        l == Max(0, RoundDiv(minX * W, den))
        t == Max(0, RoundDiv(minY * H, den))
    IN  Box(l, t,
            ClipExtent(W, l, RoundDiv((MaxOf(xs) - minX) * W, den)),
            ClipExtent(H, t, RoundDiv((MaxOf(ys) - minY) * H, den)))

PhotoBox(vs, W, H) == PhotoBoxOn(vs, W, H, Den)

\* width < 50 || height < 50, or aspectRatio > 5 || aspectRatio < 0.2
SkippedPhoto(b) ==
    \/ b.width < 50
    \/ b.height < 50
    \/ b.width > 5 * b.height
    \/ 5 * b.width < b.height

\* the photo box after its padding: padX = round(width * 0.1), paddedLeft =
\* max(0, left - padX), paddedWidth = min(W - paddedLeft, width + 2 padX)
PaddedBox(b, W, H) ==
    LET padX == RoundDiv(b.width, 10)
        padY == RoundDiv(b.height, 10)
        l == Max(0, b.left - padX)
        t == Max(0, b.top - padY)
    IN  Box(l, t,
            ClipExtent(W, l, b.width + 2 * padX),
            ClipExtent(H, t, b.height + 2 * padY))

\* a logo annotation: its box is handed to sharp's extract
detectLogo ==
    /\ bpc = "idle"
    /\ box' = LogoBox(verts, img[1], img[2])
    /\ bpc' = "logoCrop"
    /\ UNCHANGED <<verts, img, padded, gateVars, mistralVars, runVars, sessionVars, detectVars, uploadVars, validVars, wordpressVars>>

\* an object annotation, the first of its page: a box that is too small or
\* too long is skipped; otherwise the padded box is handed to sharp's extract
detectPhoto ==
    /\ bpc = "idle"
    /\ box' = PhotoBox(verts, img[1], img[2])
    /\ IF SkippedPhoto(PhotoBox(verts, img[1], img[2]))
       THEN /\ bpc' = "skipped"
            /\ UNCHANGED padded
       ELSE /\ bpc' = "photoCrop"
            /\ padded' = PaddedBox(PhotoBox(verts, img[1], img[2]), img[1], img[2])
    /\ UNCHANGED <<verts, img, gateVars, mistralVars, runVars, sessionVars, detectVars, uploadVars, validVars, wordpressVars>>

\* a detection of three vertices on a page image
BoxInit ==
    /\ GateIdle
    /\ MistralIdle
    /\ RunIdle
    /\ SessionIdle
    /\ bpc = "idle"
    /\ verts \in [1..3 -> Vertices]
    /\ img \in ImageSizes
    /\ box = Box(0, 0, 0, 0)
    /\ padded = Box(0, 0, 0, 0)
    /\ DetectIdle
    /\ UploadIdle
    /\ ValidIdle
    /\ WordpressIdle

BoxNext ==
    \/ detectLogo
    \/ detectPhoto

BoxSpec == BoxInit /\ [][BoxNext]_vars

\* a box lies inside the page image
Inside(b) ==
    /\ 0 <= b.left
    /\ 0 <= b.top
    /\ b.left + b.width <= img[1]
    /\ b.top + b.height <= img[2]

\* C20: every box handed to a crop lies inside the image: the logo box after
\* its padding, the photo box before and after its padding, whatever the
\* vertices (missing, negative or beyond the image)
C20_BoxesClipped ==
    /\ bpc = "logoCrop" => Inside(box)
    /\ bpc \in {"photoCrop", "skipped"} => Inside(box)
    /\ bpc = "photoCrop" => Inside(padded)

\* a photo was cropped from vertices of which one has no x, one lies left of
\* the page and one lies beyond its right edge, and the padding was clipped at
\* the left and at the right edge
C20_Witness ==
    /\ bpc = "photoCrop"
    /\ \E i, j, k \in 1..3 :
          verts[i].x = Missing /\ verts[j].x = -1 /\ verts[k].x > Den
    /\ padded.left = 0
    /\ padded.left + padded.width = img[1]
    /\ padded.width < box.width + 2 * RoundDiv(box.width, 10)

\* C37: on a page image with a width and a height, the box of a logo
\* annotation of three vertices that is handed to the crop is at least one
\* pixel wide and high and starts inside the image, whatever the vertices
\* (collinear, or beyond the image)
C37_LogoBoxCrops ==
    (bpc = "logoCrop" /\ img[1] > 0 /\ img[2] > 0) =>
        /\ box.width >= 1
        /\ box.height >= 1
        /\ box.left < img[1]
        /\ box.top < img[2]

(***************************************************************************)
(* detectAndCropLogos on one page: the logo stage, the photo stage and the *)
(* scene stage, each in its own try block.                                 *)
(*                                                                         *)
(* The page image is one that sharp reads, and every annotation has its    *)
(* three vertices.  One iteration of a loop is one action: its crop        *)
(* settles within it.  Scores are hundredths.  The normalized coordinates  *)
(* of an object are numerators over PhotoDen.                              *)
(***************************************************************************)
PhotoDen == 20
\* a page of 400 x 200 pixels and one that is larger than a scene crop may be
DetectSizes == {<<400, 200>>, <<2000, 1000>>}

\* const photoCategories
photoCategories ==
    {"Person", "Human", "Man", "Woman", "Child", "People", "Group",
     "Photograph", "Picture frame", "Image", "Portrait", "Photo",
     "Animal", "Pet", "Dog", "Cat", "Bird", "Wildlife",
     "Scenery", "Landscape", "Building", "Architecture", "Landmark"}

\* name and score of the detected objects: a person, and a table at three
\* confidences
ObjectClasses == {<<"Person", 50>>, <<"Table", 70>>, <<"Table", 75>>, <<"Table", 80>>}

\* the three vertices of an object that spans x1..x2 and y1..y2
NormalizedVertices(x1, x2, y1, y2) ==
    <<[x |-> x1, y |-> y1], [x |-> x2, y |-> y1], [x |-> x2, y |-> y2]>>

\* where the detected objects lie: side by side, inside one another, at the
\* edge of the page, and one that is narrow
ObjectVertices ==
    { NormalizedVertices(0, 10, 5, 15), NormalizedVertices(3, 13, 5, 15),
      NormalizedVertices(5, 15, 5, 15), NormalizedVertices(8, 20, 0, 20),
      NormalizedVertices(0, 1, 5, 15) }

ObjectAnnotations ==
    { [name |-> c[1], score |-> c[2], normalizedVertices |-> vs] :
        c \in ObjectClasses, vs \in ObjectVertices }

\* photoCategories.some(cat => objectName.toLowerCase().includes(cat.toLowerCase()))
\* || score > 0.7, for the names of ObjectClasses
isLikelyPhoto(ann) == ann.name \in photoCategories \/ ann.score > 70

\* if (!isLikelyPhoto && score < 0.8) continue
SkippedClass(ann) == ~isLikelyPhoto(ann) /\ ann.score < 80

Area(b) == b.width * b.height

\* xOverlap * yOverlap of two boxes
OverlapArea(a, b) ==
    Max(0, Min(a.left + a.width, b.left + b.width) - Max(a.left, b.left))
  * Max(0, Min(a.top + a.height, b.top + b.height) - Max(a.top, b.top))

\* processedAreas.some(area => overlapArea > 0.7 * Math.min(thisArea, existingArea))
overlapsExisting(areas, b) ==
    \E i \in 1..Len(areas) :
        10 * OverlapArea(areas[i], b) > 7 * Min(Area(b), Area(areas[i]))

\* the box of an object annotation on the page
ObjectBox(ann) == PhotoBoxOn(ann.normalizedVertices, img[1], img[2], PhotoDen)

\* const sceneCategories: nature, urban and interior
sceneCategories ==
    {"landscape", "scenery", "nature", "outdoor", "beach", "mountain", "forest",
     "lake", "ocean", "river", "sky", "sunset", "sunrise", "clouds", "field",
     "garden", "park", "trees", "waterfall", "valley", "hill", "desert",
     "building", "architecture", "landmark", "cityscape", "urban", "city",
     "skyline", "street", "downtown", "monument", "tower", "bridge", "skyscraper",
     "room", "interior", "indoor", "furniture", "office", "home", "house",
     "apartment", "hotel", "restaurant", "museum", "gallery"}

\* the labels that a page may be given
LabelAnnotations ==
    { [description |-> "landscape", score |-> 75],
      [description |-> "landscape", score |-> 80],
      [description |-> "font", score |-> 90] }

\* isSceneLabel && score > 0.75
sceneLabels(ls) == {l \in ls : l.description \in sceneCategories /\ l.score > 75}

\* a crop of the whole page
cropDataWholePage(W, H) == [width |-> W, height |-> H]

\* cropData: at most 1200 x 1200, cut to the ratio 3 : 2
cropDataOf(W, H) ==
    LET cropWidth == Min(W, 1200)
        cropHeight == Min(H, 1200)
    IN  IF 2 * cropWidth > 3 * cropHeight
        THEN [width |-> RoundDiv(3 * cropHeight, 2), height |-> cropHeight]
        ELSE [width |-> cropWidth, height |-> RoundDiv(2 * cropWidth, 3)]

\* the outcomes of a crop: written and valid, written and not valid (deleted),
\* or an error of extract, resize or toFile
CropOutcomes == {"valid", "invalid", "error"}

\* detectAndCropLogos is called: the page is read, LOGO_DETECTION is requested
detectStarts ==
    /\ dpc = "idle"
    /\ dpc' = "logoAnnotate"
    /\ UNCHANGED <<logos, objects, processedAreas, photos, labels, scenes, cropData, failed,
                   boxVars, gateVars, mistralVars, runVars, sessionVars, uploadVars, validVars, wordpressVars>>

\* annotate returns for the logos: the annotations, or {} after an error
logoAnnotateSettles(ok) ==
    /\ dpc = "logoAnnotate"
    /\ IF ok
       THEN dpc' = "logoLoop" /\ UNCHANGED failed
       ELSE dpc' = "photoAnnotate" /\ failed' = failed \cup {"logo"}
    /\ UNCHANGED <<logos, objects, processedAreas, photos, labels, scenes, cropData,
                   boxVars, gateVars, mistralVars, runVars, sessionVars, uploadVars, validVars, wordpressVars>>

\* one more logo annotation: its crop is written and its URL pushed, or the
\* crop throws and the catch of the stage ends the loop
logoAnnotation(ok) ==
    /\ dpc = "logoLoop"
    /\ Len(logos) < MaxLogos
    /\ IF ok
       THEN /\ logos' = Append(logos, Len(logos))
            /\ UNCHANGED <<dpc, failed>>
       ELSE /\ dpc' = "photoAnnotate"
            /\ failed' = failed \cup {"logo"}
            /\ UNCHANGED logos
    /\ UNCHANGED <<objects, processedAreas, photos, labels, scenes, cropData,
                   boxVars, gateVars, mistralVars, runVars, sessionVars, uploadVars, validVars, wordpressVars>>

\* no logo annotation is left: OBJECT_LOCALIZATION is requested
logoLoopEnds ==
    /\ dpc = "logoLoop"
    /\ dpc' = "photoAnnotate"
    /\ UNCHANGED <<logos, objects, processedAreas, photos, labels, scenes, cropData, failed,
                   boxVars, gateVars, mistralVars, runVars, sessionVars, uploadVars, validVars, wordpressVars>>

\* annotate returns for the objects
objectAnnotateSettles(ok) ==
    /\ dpc = "photoAnnotate"
    /\ IF ok
       THEN dpc' = "photoLoop" /\ UNCHANGED failed
       ELSE dpc' = "sceneAnnotate" /\ failed' = failed \cup {"photo"}
    /\ UNCHANGED <<logos, objects, processedAreas, photos, labels, scenes, cropData,
                   boxVars, gateVars, mistralVars, runVars, sessionVars, uploadVars, validVars, wordpressVars>>

\* one more object annotation, of index idx: it is skipped for its class, its
\* size, its aspect ratio or its overlap with a processed area; otherwise its
\* padded box is recorded as processed and cropped, and the crop is pushed
\* if it is valid
objectAnnotation(ann, crop) ==
    /\ dpc = "photoLoop"
    /\ Len(objects) < MaxObjects
    /\ objects' = Append(objects, ann)
    /\ IF \/ SkippedClass(ann)
          \/ SkippedPhoto(ObjectBox(ann))
          \/ overlapsExisting(processedAreas, ObjectBox(ann))
       THEN /\ crop = "none"
            /\ UNCHANGED <<processedAreas, photos, failed>>
       ELSE /\ crop \in CropOutcomes
            /\ processedAreas' =
                  Append(processedAreas, PaddedBox(ObjectBox(ann), img[1], img[2]))
            /\ photos' = IF crop = "valid" THEN Append(photos, Len(objects)) ELSE photos
            /\ failed' = IF crop = "error" THEN failed \cup {"photo"} ELSE failed
    /\ UNCHANGED <<dpc, logos, labels, scenes, cropData,
                   boxVars, gateVars, mistralVars, runVars, sessionVars, uploadVars, validVars, wordpressVars>>

\* no object annotation is left: the try block of the photo stage is left and
\* LABEL_DETECTION is requested
photoLoopEnds ==
    /\ dpc = "photoLoop"
    /\ dpc' = "sceneAnnotate"
    /\ objects' = <<>>
    /\ processedAreas' = <<>>
    /\ UNCHANGED <<logos, photos, labels, scenes, cropData, failed,
                   boxVars, gateVars, mistralVars, runVars, sessionVars, uploadVars, validVars, wordpressVars>>

\* annotate returns for the labels: with a scene label and without a photo of
\* this page the scene crop is computed and written
labelAnnotateSettles(ok, ls) ==
    /\ dpc = "sceneAnnotate"
    /\ IF ok THEN UNCHANGED failed ELSE ls = {} /\ failed' = failed \cup {"scene"}
    /\ labels' = ls
    /\ IF sceneLabels(ls) # {} /\ photos = <<>>
       THEN /\ dpc' = "sceneCrop"
            /\ cropData' = cropDataOf(img[1], img[2])
       ELSE /\ dpc' = "returned"
            /\ UNCHANGED cropData
    /\ UNCHANGED <<logos, objects, processedAreas, photos, scenes,
                   boxVars, gateVars, mistralVars, runVars, sessionVars, uploadVars, validVars, wordpressVars>>

\* the scene crop settles and the record is returned
sceneCropSettles(crop) ==
    /\ dpc = "sceneCrop"
    /\ dpc' = "returned"
    /\ scenes' = IF crop = "valid" THEN scenes + 1 ELSE scenes
    /\ failed' = IF crop = "error" THEN failed \cup {"scene"} ELSE failed
    /\ UNCHANGED <<logos, objects, processedAreas, photos, labels, cropData,
                   boxVars, gateVars, mistralVars, runVars, sessionVars, uploadVars, validVars, wordpressVars>>

DetectInit ==
    /\ GateIdle
    /\ MistralIdle
    /\ RunIdle
    /\ SessionIdle
    /\ bpc = "idle"
    /\ verts = <<>>
    /\ img \in DetectSizes
    /\ box = Box(0, 0, 0, 0)
    /\ padded = Box(0, 0, 0, 0)
    /\ DetectIdle
    /\ UploadIdle
    /\ ValidIdle
    /\ WordpressIdle

DetectNext ==
    \/ detectStarts
    \/ \E ok \in BOOLEAN : logoAnnotateSettles(ok)
    \/ \E ok \in BOOLEAN : logoAnnotation(ok)
    \/ logoLoopEnds
    \/ \E ok \in BOOLEAN : objectAnnotateSettles(ok)
    \/ \E ann \in ObjectAnnotations, crop \in CropOutcomes \cup {"none"} :
          objectAnnotation(ann, crop)
    \/ photoLoopEnds
    \/ \E ok \in BOOLEAN, ls \in SUBSET LabelAnnotations : labelAnnotateSettles(ok, ls)
    \/ \E crop \in CropOutcomes : sceneCropSettles(crop)

DetectSpec == DetectInit /\ [][DetectNext]_vars

\* object i of objResp passed the filters of class, size and aspect ratio
Candidate(i) ==
    /\ ~SkippedClass(objects[i])
    /\ ~SkippedPhoto(ObjectBox(objects[i]))

\* C21: of two candidate photo boxes of a page whose intersection is at least
\* 70% of the smaller one, exactly one is in photos once the loop has dealt
\* with both
C21_OverlapKeepsOne ==
    dpc = "photoLoop" =>
        \A i, j \in 1..Len(objects) :
            ( /\ i < j
              /\ Candidate(i)
              /\ Candidate(j)
              /\ 10 * OverlapArea(ObjectBox(objects[i]), ObjectBox(objects[j]))
                    >= 7 * Min(Area(ObjectBox(objects[i])), Area(ObjectBox(objects[j]))) )
            => (InSeq(i - 1, photos) # InSeq(j - 1, photos))

\* the padded box that was cropped for the entry of photos at position i
PhotoCrop(i) == PaddedBox(ObjectBox(objects[photos[i] + 1]), img[1], img[2])

\* C36: no two photo crops of a page, as padded and cropped, intersect in
\* more than 70% of the area of the smaller of the two
C36_CropsApart ==
    dpc = "photoLoop" =>
        \A i, j \in 1..Len(photos) :
            i < j => 10 * OverlapArea(PhotoCrop(i), PhotoCrop(j))
                        <= 7 * Min(Area(PhotoCrop(i)), Area(PhotoCrop(j)))

\* C22: an object whose name is no photo category and whose score is below
\* 0.8 has no crop in photos
C22_UnmatchedLowDropped ==
    \A i \in 1..Len(objects) :
        (objects[i].name \notin photoCategories /\ objects[i].score < 80)
            => ~InSeq(i - 1, photos)

\* C23: a stage in which an annotation or a crop failed contributes nothing
\* to the returned record
C23_FailedStageEmpty ==
    dpc = "returned" =>
        /\ "logo" \in failed => logos = <<>>
        /\ "photo" \in failed => photos = <<>>
        /\ "scene" \in failed => scenes = 0

\* C29: at most one scene crop; one only with a scene label above 0.75 and
\* without a photo of the page; its target size is at most 1200 x 1200 and
\* at most the size of the page
C29_SceneCrop ==
    /\ scenes <= 1
    /\ scenes = 1 =>
          /\ \E l \in labels : l.description \in sceneCategories /\ l.score > 75
          /\ photos = <<>>
    /\ (dpc = "sceneCrop" \/ scenes = 1) =>
          /\ cropData.width <= 1200
          /\ cropData.height <= 1200
          /\ cropData.width <= img[1]
          /\ cropData.height <= img[2]

\* a scene crop was returned for the large page, cut to 1200 pixels, next to
\* a logo and for labels of which one is no scene label
C29_Witness ==
    /\ dpc = "returned"
    /\ scenes = 1
    /\ img[1] > 1200
    /\ cropData.width = 1200
    /\ "font" \in {l.description : l \in labels}
    /\ logos # <<>>

(***************************************************************************)
(* PdfService.isValidImage on one image                                    *)
(*                                                                         *)
(* The image has a width, a height and the bytes that sharp's raw() gives  *)
(* for it (for a large image: for its sample of at most 500 x 500).  The   *)
(* mean and the deviation are compared on integers: avg > 10 is Sum > 10 n *)
(* and stdDev > 15 is the sum of the (n v - Sum)^2 above 225 n^3.  A call  *)
(* fails when the file cannot be read or decoded at that moment.           *)
(***************************************************************************)
\* widths and heights around the limits 50, 5:1 and 1000
Dimensions == {49, 50, 250, 251, 1001}
\* byte values
Intensities == {0, 40, 44, 100, 130, 131, 211, 215, 255}

RECURSIVE Sum(_)
Sum(q) == IF q = <<>> THEN 0 ELSE Head(q) + Sum(Tail(q))

\* the byte arrays, each in ascending order
RawData ==
    {q \in SeqsUpTo(Intensities, MaxSamples) :
        /\ q # <<>>
        /\ \A i \in 1..(Len(q) - 1) : q[i] <= q[i + 1]}

Images == [width : Dimensions, height : Dimensions, data : RawData]

\* const sampleStep = Math.max(1, Math.floor(data.length / 10000))
sampleStep(data) == Max(1, Len(data) \div 10000)

\* for (let i = 0; i < data.length; i += sampleStep) sampledData.push(data[i])
sampledData(data) ==
    [k \in 1..((Len(data) + sampleStep(data) - 1) \div sampleStep(data))
        |-> data[(k - 1) * sampleStep(data) + 1]]

\* sumSquareDiff, scaled by n^2: the sum of the (n v - Sum)^2
RECURSIVE ScaledSquareDiff(_, _, _)
ScaledSquareDiff(q, n, total) ==
    IF q = <<>> THEN 0
    ELSE (n * Head(q) - total) * (n * Head(q) - total) + ScaledSquareDiff(Tail(q), n, total)

\* a quality test that lets a deviation of exactly 15 pass
QualityLoose(q) ==
    LET n == Len(q)
    IN  /\ Sum(q) > 10 * n
        /\ Sum(q) < 245 * n
        /\ ScaledSquareDiff(q, n, Sum(q)) >= 225 * n * n * n

\* avg > 10 && avg < 245 && stdDev > 15
Quality(q) ==
    LET n == Len(q)
    IN  /\ Sum(q) > 10 * n
        /\ Sum(q) < 245 * n
        /\ ScaledSquareDiff(q, n, Sum(q)) > 225 * n * n * n

\* the verdict on an image that was read
Examine(im) ==
    IF im.width < 50 \/ im.height < 50
    THEN "invalid"
    ELSE IF im.width > 5 * im.height \/ 5 * im.width < im.height
    THEN "invalid"
    ELSE IF Quality(sampledData(im.data)) THEN "valid" ELSE "invalid"

\* one call of isValidImage for the image: a cached verdict is returned;
\* otherwise the image is examined and the verdict stored, or an error is
\* caught and false returned
validateImage(error) ==
    /\ IF validationCache["h1"] # "undefined"
       THEN /\ error = FALSE
            /\ isValid' = [value |-> validationCache["h1"], error |-> FALSE]
            /\ UNCHANGED validationCache
       ELSE IF error
       THEN /\ isValid' = [value |-> "invalid", error |-> TRUE]
            /\ UNCHANGED validationCache
       ELSE /\ isValid' = [value |-> Examine(image), error |-> FALSE]
            /\ validationCache' = [validationCache EXCEPT !["h1"] = Examine(image)]
    /\ UNCHANGED <<image, spc, skey, writer, foreignRead, runReturned, completed,
                   gateVars, mistralVars, runVars, boxVars, detectVars, uploadVars, wordpressVars>>

ValidInit ==
    /\ GateIdle
    /\ MistralIdle
    /\ RunIdle
    /\ SessionIdle
    /\ BoxIdle
    /\ DetectIdle
    /\ UploadIdle
    /\ WordpressIdle
    /\ image \in Images
    /\ isValid = [value |-> "none", error |-> FALSE]

ValidNext == \E error \in BOOLEAN : validateImage(error)

ValidSpec == ValidInit /\ [][ValidNext]_vars

\* the conditions under which an image is to be rejected
Rejected(im) ==
    LET n == Len(im.data)
    IN  \/ im.width < 50
        \/ im.height < 50
        \/ im.width > 5 * im.height
        \/ 5 * im.width < im.height
        \/ Sum(im.data) <= 10 * n
        \/ Sum(im.data) >= 245 * n
        \/ ScaledSquareDiff(im.data, n, Sum(im.data)) <= 225 * n * n * n

PageBuffers == <<"p1", "p2", "p3">>
\* the types that detectAndCropLogos passes to annotate, in its order
DetectTypes == <<"LOGO_DETECTION", "OBJECT_LOCALIZATION", "LABEL_DETECTION">>
\* the largest number of pages in validPages: as many as the largest batch
\* holds, so that a run has one full batch or several smaller ones
BatchPages == MaxConcurrentPagesHigh
\* cacheKey = `${type}_${bufferHash}` of the page at position p
PageKey(t, p) == <<DetectTypes[t], PageBuffers[p]>>
PageKeys == {PageKey(t, p) : t \in 1..3, p \in 1..BatchPages}

\* the stage of detectAndCropLogos that awaits annotate for each type
StageNumber(stage) ==
    CASE stage = "logo" -> 1
      [] stage = "object" -> 2
      [] stage = "label" -> 3
\* where detectAndCropLogos stands once a stage is over
AfterStage(stage) ==
    CASE stage = "logo" -> "object"
      [] stage = "object" -> "label"
      [] stage = "label" -> "detected"

batchRest == <<epc, poppler, nativeTools, files, batchIndex, fpc, processedImageHashes,
               validImagePaths, pages, ppc, pageHashes, validPages>>

\* the tasks of the batch at position i are started, one after the other in
\* one job: each task calls extractAndAnalyzeText and detectAndCropLogos.
\* readFileSync throws for the pages outside readable and their
\* detectAndCropLogos rejects; for the others annotate is called for the
\* logos: a cached key returns, otherwise runTask starts the task while the
\* gate has room and parks the caller when it has none
StartBatch(i, m, readable) ==
    LET n == Len(validPages)
        batch == PageBatch(i, m, n)
        callers == SelectSeq(batch, LAMBDA p : p \in readable /\ PageKey(1, p) \notin apiCache)
        room == IF running >= maxConcurrent THEN 0 ELSE maxConcurrent - running
        started == SubSeq(callers, 1, Min(room, Len(callers)))
        parked == SubSeq(callers, Min(room, Len(callers)) + 1, Len(callers))
    IN  /\ tpc' = [p \in 1..n |->
                     IF ~InSeq(p, batch) THEN (IF p >= i THEN "queued" ELSE tpc[p])
                     ELSE IF p \in readable THEN "logo" ELSE "unread"]
        /\ running' = running + Len(started)
        /\ queue' = queue \o parked
        /\ pc' = [c \in Calls |->
                    IF InSeq(c, started) THEN "inTask"
                    ELSE IF InSeq(c, parked) THEN "waiting"
                    ELSE IF InSeq(c, batch) /\ c \in readable THEN "done"
                    ELSE pc[c]]
        /\ cacheKey' = [c \in Calls |-> IF InSeq(c, callers) THEN PageKey(1, c) ELSE cacheKey[c]]
        /\ requests' = [k \in PageKeys |->
                          IF \E c \in 1..n : InSeq(c, started) /\ k = PageKey(1, c)
                          THEN requests[k] + 1 ELSE requests[k]]
        /\ returned' = [c \in Calls |->
                          IF InSeq(c, batch) /\ c \in readable /\ ~InSeq(c, callers)
                          THEN "cached" ELSE returned[c]]

\* Promise.all of the preprocessing settles: maxConcurrentPages is computed
\* and the tasks of the first batch are started; without valid pages the
\* run ends
batchLoopStarts(m, readable) ==
    /\ rpc = "preprocessing"
    /\ maxConcurrentPages' = m
    /\ IF Len(validPages) > 0
       THEN /\ rpc' = "batches"
            /\ batchStart' = 1
            /\ StartBatch(1, m, readable)
            /\ UNCHANGED recentProcessedPdf
       ELSE /\ Finish(summaries)
            /\ UNCHANGED <<batchStart, tpc, running, queue, pc, cacheKey, requests, returned>>
    /\ UNCHANGED <<summaries, batchRest, resumeJobs, others, apiCache, wokenByRejection, notRun>>

\* detectAndCropLogos of page p comes to its next annotate: the objects
\* after the logo stage, the labels after the photo stage
detectAnnotates(p) ==
    /\ rpc = "batches"
    /\ tpc[p] \in {"object", "label"}
    /\ pc[p] = "idle"
    /\ LET k == PageKey(StageNumber(tpc[p]), p)
       IN  IF k \in apiCache
           THEN /\ pc' = [pc EXCEPT ![p] = "done"]
                /\ returned' = [returned EXCEPT ![p] = "cached"]
                /\ UNCHANGED <<running, queue, resumeJobs, requests, wokenByRejection, cacheKey>>
           ELSE /\ cacheKey' = [cacheKey EXCEPT ![p] = k]
                /\ runTask(p, k)
                /\ UNCHANGED returned
    /\ UNCHANGED <<others, apiCache, notGate>>

\* annotate of page p has returned: the stage goes through the response and
\* awaits its crops; the stage is over when they have settled
stageEnds(p) ==
    /\ rpc = "batches"
    /\ tpc[p] \in {"logo", "object", "label"}
    /\ pc[p] = "done"
    /\ tpc' = [tpc EXCEPT ![p] = AfterStage(tpc[p])]
    /\ pc' = [pc EXCEPT ![p] = "idle"]
    /\ returned' = [returned EXCEPT ![p] = "pending"]
    /\ UNCHANGED <<rpc, maxConcurrentPages, batchStart, summaries, recentProcessedPdf, batchRest,
                   running, queue, resumeJobs, others, cacheKey, apiCache, requests,
                   wokenByRejection, notRun>>

\* the task of page p settles, after detectAndCropLogos has returned or
\* rejected and extractAndAnalyzeText has returned (analysis: with a title
\* and a description)
batchTaskSettles(p, analysis) ==
    /\ rpc = "batches"
    /\ tpc[p] \in {"detected", "unread"}
    /\ tpc' = [tpc EXCEPT ![p] = IF tpc[p] = "detected" /\ analysis THEN "summary" ELSE "null"]
    /\ UNCHANGED <<rpc, maxConcurrentPages, batchStart, summaries, recentProcessedPdf, batchRest,
                   gateVars, notRun>>

\* Promise.all of the current batch settles: its summaries are pushed, and
\* the tasks of the next batch are started or the run ends
batchSettles(readable) ==
    /\ rpc = "batches"
    /\ LET batch == PageBatch(batchStart, maxConcurrentPages, Len(validPages))
           pushed == summaries \o
                     SelectSeq([k \in 1..Len(batch) |-> PageSummary(batch[k])],
                               LAMBDA r : \E k \in 1..Len(batch) :
                                             /\ r = PageSummary(batch[k])
                                             /\ tpc[batch[k]] = "summary")
       IN  /\ \A k \in 1..Len(batch) : tpc[batch[k]] \in {"summary", "null"}
           /\ summaries' = pushed
           /\ IF batchStart + maxConcurrentPages <= Len(validPages)
              THEN /\ batchStart' = batchStart + maxConcurrentPages
                   /\ StartBatch(batchStart + maxConcurrentPages, maxConcurrentPages, readable)
                   /\ UNCHANGED <<rpc, recentProcessedPdf>>
              ELSE /\ Finish(pushed)
                   /\ UNCHANGED <<batchStart, tpc, running, queue, pc, cacheKey, requests, returned>>
    /\ UNCHANGED <<maxConcurrentPages, batchRest, resumeJobs, others, apiCache,
                   wokenByRejection, notRun>>

\* a run whose pages are validated and deduplicated: n pages are valid
BatchInit ==
    /\ MistralIdle
    /\ SessionIdle
    /\ BoxIdle
    /\ DetectIdle
    /\ UploadIdle
    /\ ValidIdle
    /\ WordpressIdle
    /\ running = 0
    /\ queue = <<>>
    /\ resumeJobs = <<>>
    /\ others = 0
    /\ pc = [c \in Calls |-> "idle"]
    /\ cacheKey = [c \in Calls |-> NoKey]
    /\ apiCache = {}
    /\ requests = [k \in PageKeys |-> 0]
    /\ returned = [c \in Calls |-> "pending"]
    /\ wokenByRejection = {}
    /\ rpc = "preprocessing"
    /\ epc = "returned"
    /\ poppler = "fulfilled"
    /\ nativeTools = "none"
    /\ files = 0
    /\ batchIndex = 0
    /\ fpc = <<>>
    /\ processedImageHashes = {}
    /\ validImagePaths = <<>>
    /\ \E n \in 0..BatchPages :
          /\ pages = [i \in 1..n |-> PageBuffers[i]]
          /\ ppc = [i \in 1..n |-> "kept"]
          /\ pageHashes = {PageBuffers[i] : i \in 1..n}
          /\ validPages = [i \in 1..n |-> i - 1]
          /\ tpc = [i \in 1..n |-> "queued"]
    /\ maxConcurrentPages = 0
    /\ batchStart = 0
    /\ summaries = <<>>
    /\ recentProcessedPdf = <<>>

BatchNext ==
    \/ \E m \in MaxConcurrentPagesLow..MaxConcurrentPagesHigh, readable \in SUBSET (1..BatchPages) :
          batchLoopStarts(m, readable)
    \/ \E p \in 1..Len(validPages) : detectAnnotates(p)
    \/ \E p \in 1..Len(validPages), ok \in BOOLEAN : TaskSettles(p, ok)
    \/ \E p \in 1..Len(validPages) : annotateResumes(p)
    \/ \E p \in 1..Len(validPages) : stageEnds(p)
    \/ \E p \in 1..Len(validPages), analysis \in BOOLEAN : batchTaskSettles(p, analysis)
    \/ \E readable \in SUBSET (1..BatchPages) : batchSettles(readable)

BatchSpec == BatchInit /\ [][BatchNext]_vars

\* C35: in a run that is alone, the annotate calls in flight are calls of
\* different pages of the current batch, at most maxConcurrentPages and so at
\* most 3, fewer than the gate admits; no annotate call is parked in the
\* gate's queue or woken from it
C35_NoQueueing ==
    /\ running = Cardinality({c \in Calls : pc[c] = "inTask"})
    /\ \A c \in Calls :
          pc[c] = "inTask" =>
              /\ rpc = "batches"
              /\ InSeq(c, PageBatch(batchStart, maxConcurrentPages, Len(validPages)))
    /\ rpc = "batches" => running <= maxConcurrentPages
    /\ running <= MaxConcurrentPagesHigh
    /\ running < maxConcurrent
    /\ queue = <<>>
    /\ resumeJobs = <<>>
    /\ \A c \in Calls : pc[c] # "waiting"

\* three pages of one batch have their annotate calls in flight, one for the
\* logos, one for the objects and one for the labels
C35_Witness ==
    /\ rpc = "batches"
    /\ maxConcurrentPages = 3
    /\ running = 3
    /\ {tpc[p] : p \in 1..3} = {"logo", "object", "label"}
    /\ \A p \in 1..3 : pc[p] = "inTask"

(***************************************************************************)
(* WordpressService.consolidatePDFData                                     *)
(*                                                                         *)
(* A URL is a tuple of its kind, the page it stems from and its number in  *)
(* the page's list; the empty string is the empty tuple.                   *)
(***************************************************************************)
\* the URLs of one kind that a page summary lists
Urls(kind, page, n) == [k \in 1..n |-> <<kind, page, k>>]

\* title and description of a page summary
Texts == {[title |-> "", description |-> ""],
          [title |-> "title", description |-> "description"]}

\* the page summaries at index page - 1 of pdfData: the first page with or
\* without photos, the second with or without scenes (later pages' photos
\* and scenes are not read)
PageSummaries(page) ==
    { [title |-> t.title, description |-> t.description,
       embeddedImages |-> Urls("embedded", page, e),
       logos |-> Urls("logo", page, l),
       photos |-> Urls("photo", page, p),
       scenes |-> Urls("scene", page, s)] :
      t \in (IF page <= 3 THEN Texts ELSE {[title |-> "", description |-> ""]}),
      e \in (IF page = 1 THEN {0, 1, 3} ELSE {0, 1}),
      l \in (IF page = 1 THEN {0, 3} ELSE {0, 1}),
      p \in (IF page = 1 THEN {0, 1} ELSE {0}),
      s \in (IF page = 2 THEN {0, 1} ELSE {0}) }

\* the arrays of up to n page summaries
RECURSIVE PdfDatas(_)
PdfDatas(n) ==
    IF n = 0 THEN {<<>>}
    ELSE LET shorter == PdfDatas(n - 1)
         IN shorter \cup { Append(d, q) : d \in {x \in shorter : Len(x) = n - 1},
                                           q \in PageSummaries(n) }

\* the concatenation of the lists that field selects from the page summaries
RECURSIVE flatMap(_, _)
flatMap(data, field) ==
    IF data = <<>> THEN <<>>
    ELSE data[1][field] \o flatMap(Tail(data), field)

\* a || b on strings
OrElse(a, b) == IF a # <<>> THEN a ELSE b
\* a || b where b is a literal
OrText(a, b) == IF a # "" THEN a ELSE b

\* the image fields after the embedded images are handed out (lines 158-176)
EmbeddedFields(all) ==
    [new_section_image |-> IF Len(all) > 0 THEN all[1] ELSE <<>>,
     footer_logo |-> IF Len(all) > 1 THEN all[2] ELSE <<>>,
     client_logo |-> [i \in 1..5 |-> IF i <= Min(Len(all) - 2, 5) THEN all[i + 2] ELSE <<>>]]

\* new_section_image after the first page is looked at (lines 199-203)
photoFallback(data, all) ==
    IF data[1].photos # <<>> THEN data[1].photos[1]
    ELSE EmbeddedFields(all).new_section_image

consolidatePDFData(data) ==
    LET allEmbeddedImages == flatMap(data, "embeddedImages")
        allLogos == flatMap(data, "logos")
        fromEmbedded == EmbeddedFields(allEmbeddedImages)
        first == data[1]
    IN  IF data = <<>>
        THEN [title_text |-> "", paragraph_text |-> "",
              about_us_title |-> "", about_us_paragraph |-> "",
              new_section_title |-> "", new_section_paragraph |-> "",
              site_logo |-> <<>>, client_company_logo |-> <<>>,
              new_section_image |-> <<>>, footer_logo |-> <<>>,
              client_logo |-> [i \in 1..5 |-> <<>>]]
        ELSE [title_text |-> first.title,
              paragraph_text |-> first.description,
              about_us_title |-> IF Len(data) > 1 THEN OrText(data[2].title, "About Us") ELSE "",
              about_us_paragraph |-> IF Len(data) > 1 THEN data[2].description ELSE "",
              new_section_title |-> IF Len(data) > 2 THEN OrText(data[3].title, "Our Services") ELSE "",
              new_section_paragraph |-> IF Len(data) > 2 THEN data[3].description ELSE "",
              site_logo |-> IF Len(first.logos) > 0 THEN first.logos[1] ELSE <<>>,
              client_company_logo |-> IF Len(first.logos) > 1 THEN first.logos[2] ELSE <<>>,
              new_section_image |->
                  IF Len(data) > 1 /\ data[2].scenes # <<>>
                  THEN OrElse(photoFallback(data, allEmbeddedImages), data[2].scenes[1])
                  ELSE photoFallback(data, allEmbeddedImages),
              footer_logo |-> IF Len(allLogos) > 0 THEN allLogos[Len(allLogos)]
                              ELSE fromEmbedded.footer_logo,
              client_logo |-> [i \in 1..5 |->
                  IF i <= Min(Len(first.logos) - 2, 5) THEN first.logos[i + 2]
                  ELSE fromEmbedded.client_logo[i]]]

\* mapPDFToTemplates calls consolidatePDFData on the summaries it is given
mapPDFToTemplates ==
    /\ consolidated = <<>>
    /\ consolidated' = <<consolidatePDFData(pdfData)>>
    /\ UNCHANGED <<pdfData, gateVars, mistralVars, runVars, sessionVars, boxVars, detectVars,
                   uploadVars, validVars>>

WordpressInit ==
    /\ GateIdle
    /\ MistralIdle
    /\ RunIdle
    /\ SessionIdle
    /\ BoxIdle
    /\ DetectIdle
    /\ UploadIdle
    /\ ValidIdle
    /\ pdfData \in PdfDatas(MaxSummaries)
    /\ consolidated = <<>>

WordpressNext == mapPDFToTemplates

WordpressSpec == WordpressInit /\ [][WordpressNext]_vars

\* C31: once consolidatePDFData has returned, new_section_image is the
\* first embedded image of the pages whenever a page carries one, and it is
\* a photo of the first page only when no page carries an embedded image
C31_EmbeddedFirst ==
    consolidated # <<>> =>
        LET allEmbeddedImages == flatMap(pdfData, "embeddedImages")
            field == consolidated[1].new_section_image
        IN  /\ allEmbeddedImages # <<>> => field = allEmbeddedImages[1]
            /\ (field # <<>> /\ field[1] = "photo") => allEmbeddedImages = <<>>

====
